---- MODULE Spec2Model ----
(***************************************************************************)
(* Model of the Pacemaker DCM communication layer                          *)
(* (dcm_app/services/comms_service.py, class CommsService) together with   *)
(* the settings record (dcm_app/models/settings.py) and the validator      *)
(* (dcm_app/services/validation_service.py).                               *)
(*                                                                         *)
(* Units.  Python floats are modelled as fixed-point integers:            *)
(*   amplitudes, pulse widths and sensitivities are held in HUNDREDTHS of  *)
(*   their unit (3.5 V = 350, 0.4 ms = 40).  On every two-decimal input    *)
(*   int(round(x * 10.0)) equals RoundHalfEven(h, 10) and int(round(x))    *)
(*   equals RoundHalfEven(h, 100), and b / 10.0 is the double of the       *)
(*   one-decimal literal, i.e. 10 * b hundredths.                          *)
(*                                                                         *)
(* Specifications.                                                         *)
(*   SpecCodec   one call of the frame encoder or decoder on drawn inputs. *)
(*   Spec        connection control, write_bytes and the egram reader      *)
(*               threads, interleaved with the foreground thread.          *)
(*   SpecIO      connection control and the foreground I/O operations      *)
(*               (read_bytes, send/read_parameters, the loopback test,     *)
(*               the Verify handler of the mode screen);                   *)
(*               SpecIOFair adds that the poll loop keeps running.         *)
(*   SpecStreamFair  connection control and the egram stream, with every   *)
(*               reader thread scheduled fairly.                           *)
(*   SpecApp     the egram stream together with the Verify handler.        *)
(***************************************************************************)
EXTENDS Integers, Sequences, FiniteSets, TLC

(***************************************************************************)
(* Constants of CommsService                                               *)
(***************************************************************************)
PACKET_LEN == 15
SYNC_BYTE == 9

MODE_MAP ==
    ("AOO" :> 1) @@ ("VOO" :> 2) @@ ("AAI" :> 3) @@ ("VVI" :> 4) @@
    ("AOOR" :> 5) @@ ("VOOR" :> 6) @@ ("AAIR" :> 7) @@ ("VVIR" :> 8) @@
    ("DDD" :> 9) @@ ("DDDR" :> 10)

MODE_MAP_INV ==
    [c \in {MODE_MAP[m] : m \in DOMAIN MODE_MAP} |->
        CHOOSE m \in DOMAIN MODE_MAP : MODE_MAP[m] = c]

ACTIVITY_THRESH_MAP ==
    ("V-Low" :> 0) @@ ("Low" :> 1) @@ ("Med-Low" :> 2) @@ ("Med" :> 3) @@
    ("Med-High" :> 4) @@ ("High" :> 5) @@ ("V-High" :> 6)

ACTIVITY_THRESH_MAP_INV ==
    [c \in {ACTIVITY_THRESH_MAP[a] : a \in DOMAIN ACTIVITY_THRESH_MAP} |->
        CHOOSE a \in DOMAIN ACTIVITY_THRESH_MAP : ACTIVITY_THRESH_MAP[a] = c]

FIELD_ORDER ==
    << "mode", "lower_rate_limit", "upper_rate_limit", "atrial_amplitude",
       "atrial_pulse_width", "ventricular_amplitude", "ventricular_pulse_width",
       "atrial_refractory_period", "ventricular_refractory_period",
       "recovery_time", "reaction_time", "response_factor",
       "activity_threshold", "maximum_sensor_rate" >>

(***************************************************************************)
(* PacemakerSettings: the dataclass with its defaults.                     *)
(***************************************************************************)
PacemakerSettings_default(owner, mode) ==
    [ owner_username |-> owner,
      mode |-> mode,
      lower_rate_limit |-> 60,
      upper_rate_limit |-> 120,
      maximum_sensor_rate |-> 120,
      atrial_amplitude |-> 350,
      atrial_pulse_width |-> 40,
      ventricular_amplitude |-> 350,
      ventricular_pulse_width |-> 40,
      atrial_sensitivity |-> 75,
      ventricular_sensitivity |-> 250,
      ventricular_refractory_period |-> 320,
      atrial_refractory_period |-> 250,
      pvarp |-> 250,
      fixed_av_delay |-> 150,
      dynamic_av_delay_on |-> FALSE,
      min_dynamic_av_delay |-> 50,
      sensed_av_delay_offset |-> 0,
      pvarp_extension |-> 0,
      hysteresis_rate_limit |-> 0,
      rate_smoothing_percent |-> 0,
      atr_mode_on |-> FALSE,
      atr_duration |-> 20,
      atr_fallback_time |-> 1,
      ventricular_blanking |-> 40,
      activity_threshold |-> "Med",
      reaction_time |-> 30,
      response_factor |-> 8,
      recovery_time |-> 5 ]

(***************************************************************************)
(* ValidationService.validate_settings: TRUE iff the error list is empty.  *)
(***************************************************************************)
validate_settings(s) ==
    /\ 30 <= s.lower_rate_limit /\ s.lower_rate_limit <= 175
    /\ s.lower_rate_limit <= s.upper_rate_limit /\ s.upper_rate_limit <= 175
    /\ 50 <= s.maximum_sensor_rate /\ s.maximum_sensor_rate <= 175
    /\ \A v \in {s.atrial_amplitude, s.ventricular_amplitude} :
            10 <= v /\ v <= 700
    /\ \A v \in {s.atrial_pulse_width, s.ventricular_pulse_width} :
            5 <= v /\ v <= 190
    /\ \A v \in {s.atrial_sensitivity, s.ventricular_sensitivity} :
            0 <= v /\ v <= 1000
    /\ \A v \in {s.ventricular_refractory_period,
                 s.atrial_refractory_period, s.pvarp} :
            150 <= v /\ v <= 500
    /\ 70 <= s.fixed_av_delay /\ s.fixed_av_delay <= 300
    /\ 30 <= s.min_dynamic_av_delay /\ s.min_dynamic_av_delay <= 100
    /\ -100 <= s.sensed_av_delay_offset /\ s.sensed_av_delay_offset <= 0
    /\ s.activity_threshold \in
            {"V-Low", "Low", "Med-Low", "Med", "Med-High", "High", "V-High"}

(***************************************************************************)
(* Arithmetic of the encoder                                               *)
(***************************************************************************)
\* Python round() on the rational n/d (d > 0): nearest integer, ties to even.
RoundHalfEven(n, d) ==
    LET q == n \div d
        r == n % d
    IN  IF 2 * r < d THEN q
        ELSE IF 2 * r > d THEN q + 1
        ELSE IF q % 2 = 0 THEN q ELSE q + 1

\* A wrapping byte conversion, the slip the clamp exists to prevent.
ClampWrap(x) == x % 256

\* max(0, min(255, x))
Clamp(x) ==
    LET m == IF x < 255 THEN x ELSE 255
    IN  IF m > 0 THEN m ELSE 0

\* value & 0xFF
Byte(x) == x % 256

\* MODE_MAP.get(mode, 0)
ModeCode(mode) == IF mode \in DOMAIN MODE_MAP THEN MODE_MAP[mode] ELSE 0

\* A lookup whose default for an unknown threshold name is 0 instead of 3.
ActCode_unknown_zero(a) ==
    IF a \in DOMAIN ACTIVITY_THRESH_MAP THEN ACTIVITY_THRESH_MAP[a] ELSE 0

\* ACTIVITY_THRESH_MAP.get(a, 3)
ActCode(a) ==
    IF a \in DOMAIN ACTIVITY_THRESH_MAP THEN ACTIVITY_THRESH_MAP[a] ELSE 3

\* The 16-byte layout of the stale docstrings: an instruction byte after SYNC.
encode_with_instruction(s) ==
    << Byte(SYNC_BYTE), 1, Byte(ModeCode(s.mode)),
       Byte(Clamp(s.lower_rate_limit)), Byte(Clamp(s.upper_rate_limit)),
       Byte(Clamp(RoundHalfEven(s.atrial_amplitude, 10))),
       Byte(Clamp(RoundHalfEven(s.atrial_pulse_width, 100))),
       Byte(Clamp(RoundHalfEven(s.ventricular_amplitude, 10))),
       Byte(Clamp(RoundHalfEven(s.ventricular_pulse_width, 100))),
       Byte(Clamp(s.atrial_refractory_period)),
       Byte(Clamp(s.ventricular_refractory_period)),
       Byte(Clamp(s.recovery_time)), Byte(Clamp(s.reaction_time)),
       Byte(Clamp(s.response_factor)), Byte(Clamp(ActCode(s.activity_threshold))),
       Byte(Clamp(s.maximum_sensor_rate)) >>

\* CommsService._encode_settings_to_frame
encode_settings_to_frame(s) ==
    LET mode_code == ModeCode(s.mode)
        lrl == Clamp(s.lower_rate_limit)
        url == Clamp(s.upper_rate_limit)
        msr == Clamp(s.maximum_sensor_rate)
        aa == Clamp(RoundHalfEven(s.atrial_amplitude, 10))
        va == Clamp(RoundHalfEven(s.ventricular_amplitude, 10))
        apw == Clamp(RoundHalfEven(s.atrial_pulse_width, 100))
        vpw == Clamp(RoundHalfEven(s.ventricular_pulse_width, 100))
        arp == Clamp(RoundHalfEven(s.atrial_refractory_period, 1))
        vrp == Clamp(RoundHalfEven(s.ventricular_refractory_period, 1))
        recovery == Clamp(RoundHalfEven(s.recovery_time, 1))
        reaction == Clamp(RoundHalfEven(s.reaction_time, 1))
        resp_factor == Clamp(RoundHalfEven(s.response_factor, 1))
        act_code == Clamp(ActCode(s.activity_threshold))
    IN  << Byte(SYNC_BYTE), Byte(mode_code), Byte(lrl), Byte(url), Byte(aa),
           Byte(apw), Byte(va), Byte(vpw), Byte(arp), Byte(vrp),
           Byte(recovery), Byte(reaction), Byte(resp_factor),
           Byte(act_code), Byte(msr) >>

\* MODE_MAP_INV.get(b1, mode), with no fallback: an unknown code keeps "".
ModeFromCodeNoFallback(code, mode) ==
    IF code \in DOMAIN MODE_MAP_INV THEN MODE_MAP_INV[code] ELSE ""

\* MODE_MAP_INV.get(b1, mode)
ModeFromCode(code, mode) ==
    IF code \in DOMAIN MODE_MAP_INV THEN MODE_MAP_INV[code] ELSE mode

\* A decoder that ignores the activity-threshold byte.
ActFromCode_always_med(code) == "Med"

\* ACTIVITY_THRESH_MAP_INV.get(act_code, "Med")
ActFromCode(code) ==
    IF code \in DOMAIN ACTIVITY_THRESH_MAP_INV
    THEN ACTIVITY_THRESH_MAP_INV[code] ELSE "Med"

\* The field assignments of _decode_frame_to_settings on a 15-byte prefix.
DecodeFields(mode, frame) ==
    [ PacemakerSettings_default("device", ModeFromCode(frame[2], mode)) EXCEPT
        !.lower_rate_limit = frame[3],
        !.upper_rate_limit = frame[4],
        !.maximum_sensor_rate = frame[15],
        !.atrial_amplitude = frame[5] * 10,
        !.atrial_pulse_width = frame[6] * 100,
        !.ventricular_amplitude = frame[7] * 10,
        !.ventricular_pulse_width = frame[8] * 100,
        !.atrial_refractory_period = frame[9],
        !.ventricular_refractory_period = frame[10],
        !.recovery_time = frame[11],
        !.reaction_time = frame[12],
        !.response_factor = frame[13],
        !.activity_threshold = ActFromCode(frame[14]) ]

\* A length check that only rejects short frames.
decode_accepting_long(mode, frame) ==
    IF Len(frame) < PACKET_LEN
    THEN [err |-> "ValueError", s |-> << >>, log |-> << >>]
    ELSE [err |-> "none", s |-> << DecodeFields(mode, frame) >>, log |-> << >>]

\* The log line written for a frame whose byte 0 is not the sync constant.
SyncWarning == [tag |-> "text:PARAM-sync-warning", data |-> << >>]

\* A decoder that refuses a frame whose byte 0 is not the sync constant.
decode_rejecting_bad_sync(mode, frame) ==
    IF Len(frame) # PACKET_LEN \/ frame[1] # SYNC_BYTE
    THEN [err |-> "ValueError", s |-> << >>, log |-> << >>]
    ELSE [err |-> "none", s |-> << DecodeFields(mode, frame) >>, log |-> << >>]

\* CommsService._decode_frame_to_settings: the result, or the raised error.
\* An absent settings record is the empty sequence.
\* log holds the warning written when byte 0 is not the sync constant.
decode_frame_to_settings(mode, frame) ==
    IF Len(frame) # PACKET_LEN
    THEN [err |-> "ValueError", s |-> << >>, log |-> << >>]
    ELSE [err |-> "none", s |-> << DecodeFields(mode, frame) >>,
          log |-> IF frame[1] # SYNC_BYTE THEN << SyncWarning >> ELSE << >>]

(***************************************************************************)
(* Bounds of the model                                                     *)
(***************************************************************************)
\* Longest frame handed to the decoder.
MaxFrameLen == 300
\* Serial objects the driver hands out over a run (successful opens).
MaxHandles == 2
\* Reader threads created over a run.
MaxThreads == 2
\* Reads that end other than by the read timeout (bytes arrived, or the
\* driver raised) over a run.
MaxRx == 1

(***************************************************************************)
(* State                                                                   *)
(***************************************************************************)
VARIABLES
    \* --- codec harness: one call of a pure function and its result
    call,               \* [op, s, mode, frame]: the function called and its arguments
    cret,               \* [frame, s, err]: what it returned or raised
    cpc,                \* "ready" before the call, "done" after
    \* --- CommsService fields
    ser,                \* _ser: 0 (None) or the Serial object's id
    port,               \* _port: "None" or the port name
    is_connected_flag,  \* _is_connected
    egram_queue,        \* _egram_queue: << >> (None) or << items >> once attached
    egram_thread,       \* _egram_thread: 0 (None) or the Thread's id
    egram_running,      \* _egram_running
    \* --- driver and threads
    n_handles,          \* Serial objects created so far
    handle_open,        \* handle_open[h]: the channel of Serial object h is open
    n_threads,          \* Thread objects created so far
    th_pc,              \* th_pc[t]: where reader thread t is in _egram_loop
    th_data,            \* th_data[t]: the bytes thread t holds between read and put
    rx_count,           \* reads so far that returned bytes or raised
    \* --- the foreground (UI) thread
    pc,                 \* "idle", or the statement the running call is at
    cur,                \* the running (pc # "idle") or latest call and its arguments
                        \* (port, payload or test frame, size, mode)
    ret,                \* [val, msg, raised]: what the latest call returned or raised
    tx,                 \* payloads put on a channel since the latest call began
    log,                \* uart_log.txt: the entries the foreground thread has
                        \* appended since its latest call began
    io,                 \* the reads, writes, flushes and buffer resets the latest
                        \* call asked of the driver, in order, with their outcome
    out,                \* [data, s]: the bytes or settings the latest call returned
    th_log,             \* uart_log.txt: the entries the reader threads appended
    \* --- parameter protocol and loopback
    last_sent_settings, \* _last_sent_settings: << >> (None) or << settings >>
    lb                  \* the latest call's debug_roundtrip_test locals (NoLb when
                        \* it is another operation): whether it reached its poll loop,
                        \* timeout, poll_interval, the time elapsed since the
                        \* deadline was set, and last_rx (<< >> or << bytes >>)

codecVars == << call, cret, cpc >>
fieldVars == << ser, port, is_connected_flag, egram_queue, egram_thread, egram_running >>
driverVars == << n_handles, handle_open, n_threads, th_pc, th_data, rx_count >>
fgVars == << pc, cur, ret, tx, log, io, out >>
logVars == << th_log >>
ioVars == << last_sent_settings, lb >>
svcVars == << fieldVars, driverVars, fgVars, logVars, ioVars >>
vars == << codecVars, svcVars >>

Handles == 1 .. MaxHandles
Threads == 1 .. MaxThreads
Ports == {"COM3", "COM4"}
NoPort == "None"

(***************************************************************************)
(* Inputs of the codec harness                                             *)
(***************************************************************************)
\* The settings of the application at start-up (app.py), here owned by a user.
BaseSettings == PacemakerSettings_default("alice", "VVI")

\* Settings every wire field of which fits its byte slot exactly.
ByteSizedSettings ==
    [ PacemakerSettings_default("alice", "DDDR") EXCEPT
        !.atrial_pulse_width = 100,
        !.ventricular_pulse_width = 200,
        !.ventricular_refractory_period = 200 ]

IntVals == {-5, 0, 60, 150, 255, 256, 320, 1000}
CentiVals == {-500, 40, 50, 100, 150, 345, 355, 700, 100000}
ModeVals == DOMAIN MODE_MAP \cup {"XYZ"}
ActVals == DOMAIN ACTIVITY_THRESH_MAP \cup {"Extreme"}

\* Wire fields held in hundredths (Python floats).
CentiFields ==
    {"atrial_amplitude", "ventricular_amplitude",
     "atrial_pulse_width", "ventricular_pulse_width"}
AmplitudeFields == {"atrial_amplitude", "ventricular_amplitude"}

FieldVals(f) ==
    IF f = "mode" THEN ModeVals
    ELSE IF f = "activity_threshold" THEN ActVals
    ELSE IF f \in CentiFields THEN CentiVals
    ELSE IntVals

\* b with wire fields number i and j replaced by values of their kinds.
Perturbed(b, i, j) ==
    { [b EXCEPT ![FIELD_ORDER[i]] = v, ![FIELD_ORDER[j]] = w] :
        v \in FieldVals(FIELD_ORDER[i]), w \in FieldVals(FIELD_ORDER[j]) }

\* Each base record with one or two wire fields replaced.
SettingsInputs ==
    UNION { Perturbed(x[1], x[2], x[3]) :
        x \in { y \in {BaseSettings, ByteSizedSettings} \X (1 .. 14) \X (1 .. 14) :
                    y[2] <= y[3] } }

BaseFrame == encode_settings_to_frame(BaseSettings)
ByteVals == {0, 7, 11, 99, 255}

\* 15-byte frames: the base frame with one or two bytes replaced, and with the
\* mode byte or the activity-threshold byte running over every byte value.
FrameInputs ==
    { [BaseFrame EXCEPT ![x[1]] = x[3], ![x[2]] = x[4]] :
        x \in { y \in (1 .. PACKET_LEN) \X (1 .. PACKET_LEN) \X ByteVals \X ByteVals :
                    /\ y[1] <= y[2]
                    /\ (y[1] = y[2] => y[3] = y[4]) } }
    \cup { [BaseFrame EXCEPT ![k] = v] : k \in {2, 14}, v \in 0 .. 255 }

\* A frame of n bytes: zeros, or the base frame repeated.
FrameOfLen(n, fill) ==
    [i \in 1 .. n |-> IF fill = 0 THEN 0 ELSE BaseFrame[((i - 1) % PACKET_LEN) + 1]]

WrongLenFrames ==
    { FrameOfLen(n, fill) : n \in (0 .. MaxFrameLen) \ {PACKET_LEN}, fill \in {0, 1} }

FallbackModes == {"VVI", "AOOR"}

CodecCalls ==
    [op : {"encode", "roundtrip"}, s : SettingsInputs, mode : {""}, frame : {<< >>}]
    \cup [op : {"decode"}, s : {BaseSettings}, mode : FallbackModes,
          frame : FrameInputs \cup WrongLenFrames]
    \cup [op : {"reverse"}, s : {BaseSettings}, mode : FallbackModes,
          frame : FrameInputs]

NoCall == [op |-> "none", s |-> BaseSettings, mode |-> "", frame |-> << >>]
NoCodecRet == [frame |-> << >>, s |-> << >>, err |-> "none"]

(***************************************************************************)
(* Initial state of the service: CommsService.__init__                     *)
(***************************************************************************)
NoRet == [val |-> "None", msg |-> "", raised |-> FALSE]
NoOut == [data |-> << >>, s |-> << >>, diff |-> << >>, ports |-> << >>]
NoLb == [started |-> FALSE, timeout |-> 0, poll_interval |-> 0, elapsed |-> 0,
         last_rx |-> << >>]
NoCur == [name |-> "none", port |-> NoPort, payload |-> << >>, size |-> 0,
          mode |-> "", settings |-> << >>, pre_connected |-> FALSE,
          after_disconnect |-> FALSE, after_short_read |-> FALSE]

InitService ==
    /\ ser = 0
    /\ port = NoPort
    /\ is_connected_flag = FALSE
    /\ egram_queue = << >>
    /\ egram_thread = 0
    /\ egram_running = FALSE
    /\ n_handles = 0
    /\ handle_open = [h \in Handles |-> FALSE]
    /\ n_threads = 0
    /\ th_pc = [t \in Threads |-> "unborn"]
    /\ th_data = [t \in Threads |-> << >>]
    /\ rx_count = 0
    /\ pc = "idle"
    /\ cur = NoCur
    /\ ret = NoRet
    /\ tx = << >>
    /\ log = << >>
    /\ io = << >>
    /\ out = NoOut
    /\ th_log = << >>
    /\ last_sent_settings = << >>
    /\ lb = NoLb

(***************************************************************************)
(* The codec harness: one call of _encode_settings_to_frame or             *)
(* _decode_frame_to_settings on arguments drawn by InitCodec.              *)
(***************************************************************************)
InitCodec ==
    /\ call \in CodecCalls
    /\ cret = NoCodecRet
    /\ cpc = "ready"
    /\ InitService

\* frame = self._encode_settings_to_frame(s)
DoEncode ==
    /\ cpc = "ready" /\ call.op = "encode"
    /\ cret' = [frame |-> encode_settings_to_frame(call.s), s |-> << >>, err |-> "none"]
    /\ cpc' = "done"
    /\ UNCHANGED << call, svcVars >>

\* settings = self._decode_frame_to_settings(mode, frame)
DoDecode ==
    /\ cpc = "ready" /\ call.op = "decode"
    /\ LET d == decode_frame_to_settings(call.mode, call.frame)
       IN  /\ cret' = [frame |-> << >>, s |-> d.s, err |-> d.err]
           /\ log' = log \o d.log
    /\ cpc' = "done"
    /\ UNCHANGED << call, fieldVars, driverVars, pc, cur, ret, tx, io, out,
                    logVars, ioVars >>

\* self._decode_frame_to_settings(s.mode, self._encode_settings_to_frame(s))
DoRoundTrip ==
    /\ cpc = "ready" /\ call.op = "roundtrip"
    /\ LET f == encode_settings_to_frame(call.s)
           d == decode_frame_to_settings(call.s.mode, f)
       IN  /\ cret' = [frame |-> f, s |-> d.s, err |-> d.err]
           /\ log' = log \o d.log
    /\ cpc' = "done"
    /\ UNCHANGED << call, fieldVars, driverVars, pc, cur, ret, tx, io, out,
                    logVars, ioVars >>

\* self._encode_settings_to_frame(self._decode_frame_to_settings(mode, frame))
DoReverse ==
    /\ cpc = "ready" /\ call.op = "reverse"
    /\ LET d == decode_frame_to_settings(call.mode, call.frame)
       IN  /\ cret' = [frame |-> IF d.s = << >> THEN << >>
                                 ELSE encode_settings_to_frame(d.s[1]),
                       s |-> d.s, err |-> d.err]
           /\ log' = log \o d.log
    /\ cpc' = "done"
    /\ UNCHANGED << call, fieldVars, driverVars, pc, cur, ret, tx, io, out,
                    logVars, ioVars >>

NextCodec == DoEncode \/ DoDecode \/ DoRoundTrip \/ DoReverse

SpecCodec == InitCodec /\ [][NextCodec]_vars

(***************************************************************************)
(* The service: connection control, raw I/O and the egram reader           *)
(***************************************************************************)
Payloads == {<< 170 >>, BaseFrame}
RxChunks == {<< 7, 8 >>}

\* @property is_connected
IsConnected == is_connected_flag /\ ser # 0 /\ handle_open[ser]

LogEntry(tag, data) == [tag |-> tag, data |-> data]

\* The record of a call the foreground thread begins now: its name and
\* arguments, whether the service is connected as it begins, and whether the
\* call before it was a disconnect().
Begin(name, p, payload) ==
    [name |-> name, port |-> p, payload |-> payload, size |-> 0, mode |-> "",
     settings |-> << >>,
     pre_connected |-> IsConnected, after_disconnect |-> cur.name = "disconnect",
     after_short_read |-> FALSE]

Returned(val, msg) == [val |-> val, msg |-> msg, raised |-> FALSE]
Raised(msg) == [val |-> "None", msg |-> msg, raised |-> TRUE]

\* attach_egram_queue(eg_queue): the dashboard's one queue.Queue().
AttachEgramQueue ==
    /\ pc = "idle" /\ egram_queue = << >>
    /\ cur' = Begin("attach_egram_queue", NoPort, << >>)
    /\ ret' = Returned("None", "")
    /\ egram_queue' = << << >> >>
    /\ tx' = << >> /\ log' = << >> /\ io' = << >> /\ out' = NoOut
    /\ UNCHANGED << ser, port, is_connected_flag, egram_thread, egram_running,
                    driverVars, pc, th_log, codecVars, ioVars >>

\* stop_egram_stream, first statement: self._egram_running = False.  Every
\* call of connect, disconnect and stop_egram_stream begins here.
BeginStop(name, p) ==
    /\ pc = "idle"
    /\ cur' = Begin(name, p, << >>)
    /\ ret' = NoRet
    /\ tx' = << >> /\ log' = << >> /\ io' = << >> /\ out' = NoOut
    /\ egram_running' = FALSE
    /\ pc' = "join"
    /\ lb' = NoLb
    /\ UNCHANGED << ser, port, is_connected_flag, egram_queue, egram_thread,
                    driverVars, th_log, codecVars, last_sent_settings >>

\* disconnect without its first statement: the reader is not told to stop and
\* not joined before the port is closed.
CallDisconnect_without_stop ==
    /\ pc = "idle"
    /\ cur' = Begin("disconnect", NoPort, << >>)
    /\ ret' = NoRet
    /\ tx' = << >> /\ log' = << >> /\ io' = << >> /\ out' = NoOut
    /\ pc' = "close"
    /\ lb' = NoLb
    /\ UNCHANGED << ser, port, is_connected_flag, egram_queue, egram_thread,
                    egram_running, driverVars, th_log, codecVars, last_sent_settings >>

CallConnect == \E p \in Ports : BeginStop("connect", p)
CallDisconnect == BeginStop("disconnect", NoPort)
CallStopEgramStream == BeginStop("stop_egram_stream", NoPort)

\* stop_egram_stream with join() in place of join(timeout=0.5): it returns only
\* once the thread it holds has ended.
Join_unbounded ==
    /\ pc = "join"
    /\ egram_thread # 0 => th_pc[egram_thread] = "dead"
    /\ egram_thread' = 0
    /\ log' = IF IsConnected THEN Append(log, LogEntry("text:EGRAM-stopped", << >>))
              ELSE log
    /\ IF cur.name = "stop_egram_stream"
       THEN pc' = "idle" /\ ret' = Returned("None", "")
       ELSE pc' = "close" /\ ret' = ret
    /\ UNCHANGED << ser, port, is_connected_flag, egram_queue, egram_running,
                    driverVars, cur, tx, io, out, th_log, codecVars, ioVars >>

\* stop_egram_stream, the rest: the bounded join returns (the thread has ended,
\* or the 0.5 s have passed with the thread still alive), the thread reference
\* is dropped, and the stop is logged when connected.
Join ==
    /\ pc = "join"
    /\ egram_thread' = 0
    /\ log' = IF IsConnected THEN Append(log, LogEntry("text:EGRAM-stopped", << >>))
              ELSE log
    /\ IF cur.name = "stop_egram_stream"
       THEN pc' = "idle" /\ ret' = Returned("None", "")
       ELSE pc' = "close" /\ ret' = ret
    /\ UNCHANGED << ser, port, is_connected_flag, egram_queue, egram_running,
                    driverVars, cur, tx, io, out, th_log, codecVars, ioVars >>

\* disconnect without the try/except around close(): the error propagates
\* and the fields are not cleared.
disconnect_close_uncaught(close_raises) ==
    IF close_raises
    THEN [raised |-> TRUE, ser |-> ser, port |-> port,
          is_connected |-> is_connected_flag, log |-> log]
    ELSE [raised |-> FALSE, ser |-> 0, port |-> NoPort, is_connected |-> FALSE,
          log |-> IF ser # 0 /\ handle_open[ser]
                  THEN Append(log, LogEntry("text:closed", << >>)) ELSE log]

\* disconnect after the stop: close the port if it is open, swallowing and
\* logging a close error, then clear _ser, _port and _is_connected.
disconnect_close(close_raises) ==
    [raised |-> FALSE, ser |-> 0, port |-> NoPort, is_connected |-> FALSE,
     log |-> IF ser # 0 /\ handle_open[ser]
             THEN Append(log, LogEntry(IF close_raises THEN "text:close-error"
                                       ELSE "text:closed", << >>))
             ELSE log]

\* The driver's close(): it closes the channel, or raises; after a raise the
\* channel may or may not have been released.
Close ==
    /\ pc = "close"
    /\ \E close_raises, stays_open \in BOOLEAN :
        /\ close_raises => (ser # 0 /\ handle_open[ser])
        /\ stays_open => close_raises
        /\ handle_open' = IF ser # 0 /\ handle_open[ser]
                          THEN [handle_open EXCEPT ![ser] = stays_open]
                          ELSE handle_open
        /\ LET o == disconnect_close(close_raises)
           IN  /\ ser' = o.ser
               /\ port' = o.port
               /\ is_connected_flag' = o.is_connected
               /\ log' = o.log
               /\ IF o.raised
                  THEN pc' = "idle" /\ ret' = Raised("close error")
                  ELSE IF cur.name = "disconnect"
                  THEN pc' = "idle" /\ ret' = Returned("None", "")
                  ELSE pc' = "open" /\ ret' = ret
    /\ UNCHANGED << egram_queue, egram_thread, egram_running, n_handles,
                    n_threads, th_pc, th_data, rx_count, cur, tx, io, out, th_log, codecVars, ioVars >>

\* connect with the port name stored before serial.Serial() is tried and
\* not cleared when it fails.
connect_open_keeps_port(p, opens, h) ==
    IF opens
    THEN [ser |-> h, port |-> p, is_connected |-> TRUE, val |-> "True",
          msg |-> "None", tag |-> "text:connected"]
    ELSE [ser |-> 0, port |-> p, is_connected |-> FALSE, val |-> "False",
          msg |-> "Failed to open", tag |-> "text:open-failed"]

\* connect with the connected flag set even when serial.Serial() fails.
connect_open_flag_first(p, opens, h) ==
    IF opens
    THEN [ser |-> h, port |-> p, is_connected |-> TRUE, val |-> "True",
          msg |-> "None", tag |-> "text:connected"]
    ELSE [ser |-> 0, port |-> NoPort, is_connected |-> TRUE, val |-> "False",
          msg |-> "Failed to open", tag |-> "text:open-failed"]

\* connect after the disconnect: serial.Serial(port) returns object h, or raises.
connect_open(p, opens, h) ==
    IF opens
    THEN [ser |-> h, port |-> p, is_connected |-> TRUE, val |-> "True",
          msg |-> "None", tag |-> "text:connected"]
    ELSE [ser |-> 0, port |-> NoPort, is_connected |-> FALSE, val |-> "False",
          msg |-> "Failed to open", tag |-> "text:open-failed"]

Open ==
    /\ pc = "open"
    /\ \E opens \in BOOLEAN :
        /\ opens => n_handles < MaxHandles
        /\ LET h == n_handles + 1
               o == connect_open(cur.port, opens, h)
           IN  /\ ser' = o.ser
               /\ port' = o.port
               /\ is_connected_flag' = o.is_connected
               /\ ret' = Returned(o.val, o.msg)
               /\ log' = Append(log, LogEntry(o.tag, << >>))
               /\ n_handles' = IF opens THEN h ELSE n_handles
               /\ handle_open' = IF opens THEN [handle_open EXCEPT ![h] = TRUE]
                                 ELSE handle_open
    /\ pc' = "idle"
    /\ UNCHANGED << egram_queue, egram_thread, egram_running, n_threads, th_pc,
                    th_data, rx_count, cur, tx, io, out, th_log, codecVars, ioVars >>

\* start_egram_stream without the test of _egram_running: it starts a thread
\* whenever the service is connected.
StartEgramStream_restart ==
    /\ pc = "idle"
    /\ cur' = Begin("start_egram_stream", NoPort, << >>)
    /\ ret' = Returned("None", "")
    /\ tx' = << >> /\ io' = << >> /\ out' = NoOut
    /\ IF ~IsConnected
       THEN /\ log' = << LogEntry("text:EGRAM-not-connected", << >>) >>
            /\ UNCHANGED << egram_running, egram_thread, n_threads, th_pc >>
       ELSE /\ n_threads < MaxThreads
            /\ egram_running' = TRUE
            /\ n_threads' = n_threads + 1
            /\ egram_thread' = n_threads + 1
            /\ th_pc' = [th_pc EXCEPT ![n_threads + 1] = "check"]
            /\ log' = << LogEntry("text:EGRAM-started", << >>) >>
    /\ UNCHANGED << ser, port, is_connected_flag, egram_queue, n_handles,
                    handle_open, th_data, rx_count, pc, th_log, codecVars, ioVars >>

\* start_egram_stream
StartEgramStream ==
    /\ pc = "idle"
    /\ cur' = Begin("start_egram_stream", NoPort, << >>)
    /\ ret' = Returned("None", "")
    /\ tx' = << >> /\ io' = << >> /\ out' = NoOut
    /\ IF ~IsConnected
       THEN /\ log' = << LogEntry("text:EGRAM-not-connected", << >>) >>
            /\ UNCHANGED << egram_running, egram_thread, n_threads, th_pc >>
       ELSE IF egram_running
       THEN /\ log' = << >>
            /\ UNCHANGED << egram_running, egram_thread, n_threads, th_pc >>
       ELSE /\ n_threads < MaxThreads
            /\ egram_running' = TRUE
            /\ n_threads' = n_threads + 1
            /\ egram_thread' = n_threads + 1
            /\ th_pc' = [th_pc EXCEPT ![n_threads + 1] = "check"]
            /\ log' = << LogEntry("text:EGRAM-started", << >>) >>
    /\ UNCHANGED << ser, port, is_connected_flag, egram_queue, n_handles,
                    handle_open, th_data, rx_count, pc, th_log, codecVars, ioVars >>

\* One call of the driver on the open channel: op is "read", "write", "flush",
\* "reset_input_buffer" or "reset_output_buffer"; n the size asked (read) or the
\* number of bytes passed (write); ok whether it returned without raising; at
\* the time it began, counted from the start of a loopback test (else 0).
IoCall(op, n, ok) == [op |-> op, n |-> n, ok |-> ok, at |-> 0]

\* write_bytes that logs nothing in mock mode.
write_bytes_unlogged_mock(payload, write_raises) ==
    IF ~IsConnected
    THEN [val |-> "False", raised |-> FALSE, tx |-> << >>, io |-> << >>, log |-> << >>]
    ELSE IF write_raises
    THEN [val |-> "False", raised |-> FALSE, tx |-> << >>,
          io |-> << IoCall("write", Len(payload), FALSE) >>,
          log |-> << LogEntry("TX-ERR", payload), LogEntry("text:WRITE-error", << >>) >>]
    ELSE [val |-> "True", raised |-> FALSE, tx |-> << payload >>,
          io |-> << IoCall("write", Len(payload), TRUE) >>,
          log |-> << LogEntry("TX", payload) >>]

\* write_bytes without the try/except: the driver's exception reaches the caller.
write_bytes_propagating(payload, write_raises) ==
    IF ~IsConnected
    THEN [val |-> "False", raised |-> FALSE, tx |-> << >>, io |-> << >>,
          log |-> << LogEntry("TX-NC", payload) >>]
    ELSE IF write_raises
    THEN [val |-> "None", raised |-> TRUE, tx |-> << >>,
          io |-> << IoCall("write", Len(payload), FALSE) >>, log |-> << >>]
    ELSE [val |-> "True", raised |-> FALSE, tx |-> << payload >>,
          io |-> << IoCall("write", Len(payload), TRUE) >>,
          log |-> << LogEntry("TX", payload) >>]

\* write_bytes(payload): its return value, what it puts on the channel, the
\* driver calls it makes and what it logs; write_raises is the driver's
\* write() raising.  raised: an exception leaves write_bytes (never).
write_bytes(payload, write_raises) ==
    IF ~IsConnected
    THEN [val |-> "False", raised |-> FALSE, tx |-> << >>, io |-> << >>,
          log |-> << LogEntry("TX-NC", payload) >>]
    ELSE IF write_raises
    THEN [val |-> "False", raised |-> FALSE, tx |-> << >>,
          io |-> << IoCall("write", Len(payload), FALSE) >>,
          log |-> << LogEntry("TX-ERR", payload), LogEntry("text:WRITE-error", << >>) >>]
    ELSE [val |-> "True", raised |-> FALSE, tx |-> << payload >>,
          io |-> << IoCall("write", Len(payload), TRUE) >>,
          log |-> << LogEntry("TX", payload) >>]

WriteBytes ==
    /\ pc = "idle"
    /\ \E payload \in Payloads, write_raises \in BOOLEAN :
        /\ write_raises => IsConnected
        /\ cur' = Begin("write_bytes", NoPort, payload)
        /\ LET o == write_bytes(payload, write_raises)
           IN  /\ ret' = IF o.raised THEN Raised("driver error") ELSE Returned(o.val, "")
               /\ tx' = o.tx
               /\ log' = o.log
               /\ io' = o.io
    /\ out' = NoOut /\ lb' = NoLb
    /\ UNCHANGED << fieldVars, driverVars, pc, th_log, codecVars, last_sent_settings >>

\* The driver's read(size) when `avail` is what the device delivers within the
\* read timeout: at most size bytes, from the front.
DriverRead(size, avail) ==
    SubSeq(avail, 1, IF Len(avail) < size THEN Len(avail) ELSE size)

\* read_bytes without the try/except: the driver's exception reaches the caller.
read_bytes_propagating(size, outcome, avail) ==
    IF ~IsConnected
    THEN [data |-> << >>, raised |-> FALSE, io |-> << >>, log |-> << >>]
    ELSE IF outcome = "data"
    THEN [data |-> DriverRead(size, avail), raised |-> FALSE,
          io |-> << IoCall("read", size, TRUE) >>,
          log |-> IF DriverRead(size, avail) = << >> THEN << >>
                  ELSE << LogEntry("RX", DriverRead(size, avail)) >>]
    ELSE IF outcome = "raises"
    THEN [data |-> << >>, raised |-> TRUE,
          io |-> << IoCall("read", size, FALSE) >>, log |-> << >>]
    ELSE [data |-> << >>, raised |-> FALSE,
          io |-> << IoCall("read", size, TRUE) >>, log |-> << >>]

\* read_bytes(size): the bytes returned, the driver calls made and the entries
\* logged.  outcome is what the driver's read() does: "timeout" (nothing
\* arrived), "data" (avail arrived) or "raises".  raised: an exception leaves
\* read_bytes (never).
read_bytes(size, outcome, avail) ==
    IF ~IsConnected
    THEN [data |-> << >>, raised |-> FALSE, io |-> << >>, log |-> << >>]
    ELSE IF outcome = "data"
    THEN [data |-> DriverRead(size, avail), raised |-> FALSE,
          io |-> << IoCall("read", size, TRUE) >>,
          log |-> IF DriverRead(size, avail) = << >> THEN << >>
                  ELSE << LogEntry("RX", DriverRead(size, avail)) >>]
    ELSE IF outcome = "raises"
    THEN [data |-> << >>, raised |-> FALSE,
          io |-> << IoCall("read", size, FALSE) >>,
          log |-> << LogEntry("text:READ-error", << >>) >>]
    ELSE [data |-> << >>, raised |-> FALSE,
          io |-> << IoCall("read", size, TRUE) >>, log |-> << >>]

\* A loop whose condition does not test _egram_running.
ThCheck_ignoring_flag(t) ==
    /\ th_pc[t] = "check"
    /\ IF ser # 0 /\ handle_open[ser]
       THEN th_pc' = [th_pc EXCEPT ![t] = "read"] /\ UNCHANGED egram_running
       ELSE th_pc' = [th_pc EXCEPT ![t] = "dead"] /\ egram_running' = FALSE
    /\ UNCHANGED << ser, port, is_connected_flag, egram_queue, egram_thread,
                    n_handles, handle_open, n_threads, th_data, rx_count,
                    fgVars, th_log, codecVars, ioVars >>

\* _egram_loop, the while condition; leaving the loop clears _egram_running.
ThCheck(t) ==
    /\ th_pc[t] = "check"
    /\ IF egram_running /\ ser # 0 /\ handle_open[ser]
       THEN th_pc' = [th_pc EXCEPT ![t] = "read"] /\ UNCHANGED egram_running
       ELSE th_pc' = [th_pc EXCEPT ![t] = "dead"] /\ egram_running' = FALSE
    /\ UNCHANGED << ser, port, is_connected_flag, egram_queue, egram_thread,
                    n_handles, handle_open, n_threads, th_data, rx_count,
                    fgVars, th_log, codecVars, ioVars >>

\* _egram_loop: data = self.read_bytes(64); an empty result sleeps and retries.
\* An exception leaving read_bytes would be logged by the loop's except branch
\* and end the loop, clearing _egram_running.
ThRead(t) ==
    /\ th_pc[t] = "read"
    /\ \E outcome \in {"timeout", "data", "raises"}, chunk \in RxChunks :
        /\ outcome # "timeout" => (IsConnected /\ rx_count < MaxRx)
        /\ LET o == read_bytes(64, outcome, chunk)
           IN  /\ th_log' = IF o.raised
                            THEN th_log \o << LogEntry("text:EGRAM-error", << >>) >>
                            ELSE th_log \o o.log
               /\ th_data' = [th_data EXCEPT ![t] = o.data]
               /\ th_pc' = [th_pc EXCEPT ![t] = IF o.raised THEN "dead"
                                                ELSE IF o.data = << >> THEN "check"
                                                ELSE "put"]
               /\ egram_running' = IF o.raised THEN FALSE ELSE egram_running
               /\ rx_count' = IF outcome = "timeout" THEN rx_count ELSE rx_count + 1
    /\ UNCHANGED << ser, port, is_connected_flag, egram_queue, egram_thread,
                    n_handles, handle_open, n_threads, fgVars, codecVars, ioVars >>

\* _egram_loop: self._egram_queue.put(list(data)) when a queue is attached.
ThPut(t) ==
    /\ th_pc[t] = "put"
    /\ egram_queue' = IF egram_queue = << >> THEN egram_queue
                      ELSE << Append(egram_queue[1], th_data[t]) >>
    /\ th_data' = [th_data EXCEPT ![t] = << >>]
    /\ th_pc' = [th_pc EXCEPT ![t] = "check"]
    /\ UNCHANGED << ser, port, is_connected_flag, egram_thread, egram_running,
                    n_handles, handle_open, n_threads, rx_count, fgVars, th_log, codecVars, ioVars >>

Reader == \E t \in Threads : ThCheck(t) \/ ThRead(t) \/ ThPut(t)

Init ==
    /\ call = NoCall
    /\ cret = NoCodecRet
    /\ cpc = "idle"
    /\ InitService

Next ==
    \/ AttachEgramQueue
    \/ CallConnect
    \/ CallDisconnect
    \/ CallStopEgramStream
    \/ Join
    \/ Close
    \/ Open
    \/ StartEgramStream
    \/ WriteBytes
    \/ Reader

Spec == Init /\ [][Next]_vars

\* The operations that start, stop and run the egram stream.
NextStream ==
    \/ AttachEgramQueue
    \/ CallConnect
    \/ CallDisconnect
    \/ CallStopEgramStream
    \/ Join
    \/ Close
    \/ Open
    \/ StartEgramStream
    \/ Reader

\* Every reader thread that has a step to take is scheduled: a driver read
\* returns within its timeout and the put on the unbounded queue never blocks.
SpecStreamFair ==
    /\ Init /\ [][NextStream]_vars
    /\ \A t \in 1 .. MaxThreads : WF_vars(ThCheck(t) \/ ThRead(t) \/ ThPut(t))

(***************************************************************************)
(* Foreground I/O on the channel: read_bytes, the parameter protocol and   *)
(* the loopback test.  No reader thread runs in this specification.        *)
(***************************************************************************)
\* Time is counted in ticks of 0.1 s.
ReadTimeout == 2
MaxTimeout == 3
Timeouts == -1 .. MaxTimeout
PollIntervals == {1}

SendInputs == {BaseSettings, ByteSizedSettings}
OtherFrame == encode_settings_to_frame(ByteSizedSettings)
LongFrame == BaseFrame \o << 1 >>
ShortFrame == SubSeq(BaseFrame, 1, 7)

\* What the device may deliver within one read timeout.
RxAvail == {BaseFrame, OtherFrame, ShortFrame, LongFrame}
ReadSizes == {1, PACKET_LEN, 64}
TestFrames == {BaseFrame, SubSeq(BaseFrame, 1, PACKET_LEN - 1), LongFrame}

BeginSized(name, size) == [Begin(name, NoPort, << >>) EXCEPT !.size = size]
BeginMode(name, mode) == [Begin(name, NoPort, << >>) EXCEPT !.mode = mode]
BeginSettings(name, s) ==
    [Begin(name, NoPort, encode_settings_to_frame(s)) EXCEPT !.settings = << s >>]

\* A foreground call of read_bytes(size).
ReadBytes ==
    /\ pc = "idle"
    /\ \E size \in ReadSizes, outcome \in {"timeout", "data", "raises"} :
      \E avail \in IF outcome = "data" THEN RxAvail ELSE {ShortFrame} :
        /\ outcome # "timeout" => IsConnected
        /\ cur' = BeginSized("read_bytes", size)
        /\ LET o == read_bytes(size, outcome, avail)
           IN  /\ ret' = IF o.raised THEN Raised("driver error")
                         ELSE Returned("bytes", "")
               /\ out' = [NoOut EXCEPT !.data = o.data]
               /\ io' = o.io
               /\ log' = o.log
    /\ tx' = << >> /\ lb' = NoLb
    /\ UNCHANGED << fieldVars, driverVars, pc, th_log, codecVars, last_sent_settings >>

\* send_parameters that ignores the result of write_bytes.
send_parameters_ignoring_result(s, write_raises, flush_raises) ==
    LET frame == encode_settings_to_frame(s)
        head == << LogEntry("PARAM-TX", frame), LogEntry("text:Fields", << >>) >>
        w == write_bytes(frame, write_raises)
    IN  IF ~IsConnected
        THEN [raised |-> FALSE, msg |-> "", tx |-> << >>, io |-> << >>,
              log |-> Append(head, LogEntry("text:PARAM-mock", << >>))]
        ELSE [raised |-> FALSE, msg |-> "", tx |-> w.tx,
              io |-> Append(w.io, IoCall("flush", 0, TRUE)),
              log |-> head \o w.log]

\* send_parameters(settings) after self._last_sent_settings = settings: whether
\* it raises and with what message, what it puts on the channel, the driver
\* calls it makes and what it logs.  flush_raises is the driver's flush()
\* raising.
send_parameters(s, write_raises, flush_raises) ==
    LET frame == encode_settings_to_frame(s)
        head == << LogEntry("PARAM-TX", frame), LogEntry("text:Fields", << >>) >>
        w == write_bytes(frame, write_raises)
        err == LogEntry("text:PARAM-error", << >>)
    IN  IF ~IsConnected
        THEN [raised |-> FALSE, msg |-> "", tx |-> << >>, io |-> << >>,
              log |-> Append(head, LogEntry("text:PARAM-mock", << >>))]
        ELSE IF w.raised
        THEN [raised |-> TRUE,
              msg |-> "Error writing parameters to serial port: driver error",
              tx |-> w.tx, io |-> w.io, log |-> Append(head \o w.log, err)]
        ELSE IF w.val # "True"
        THEN [raised |-> TRUE,
              msg |-> "Error writing parameters to serial port: write_bytes returned False.",
              tx |-> w.tx, io |-> w.io, log |-> Append(head \o w.log, err)]
        ELSE IF flush_raises
        THEN [raised |-> TRUE,
              msg |-> "Error writing parameters to serial port: driver error",
              tx |-> w.tx, io |-> Append(w.io, IoCall("flush", 0, FALSE)),
              log |-> Append(head \o w.log, err)]
        ELSE [raised |-> FALSE, msg |-> "", tx |-> w.tx,
              io |-> Append(w.io, IoCall("flush", 0, TRUE)),
              log |-> head \o w.log]

\* A service that remembers only the settings it managed to send.
last_sent_after_success_only(prev, s, failed) == IF failed THEN prev ELSE << s >>

\* self._last_sent_settings = settings, the first statement of send_parameters
last_sent_after(prev, s, failed) == << s >>

SendParameters ==
    /\ pc = "idle"
    /\ \E s \in SendInputs, write_raises, flush_raises \in BOOLEAN :
        /\ write_raises => IsConnected
        /\ flush_raises => (IsConnected /\ ~write_raises)
        /\ cur' = BeginSettings("send_parameters", s)
        /\ LET o == send_parameters(s, write_raises, flush_raises)
           IN  /\ last_sent_settings' = last_sent_after(last_sent_settings, s, o.raised)
               /\ ret' = IF o.raised THEN Raised(o.msg) ELSE Returned("None", "")
               /\ tx' = o.tx
               /\ io' = o.io
               /\ log' = o.log
    /\ out' = NoOut /\ lb' = NoLb
    /\ UNCHANGED << fieldVars, driverVars, pc, th_log, codecVars >>

\* A frame of fewer than 15 bytes padded with zeros.
Padded(raw) == [i \in 1 .. PACKET_LEN |-> IF i <= Len(raw) THEN raw[i] ELSE 0]

\* read_parameters without the length test: it decodes whatever arrived.
read_parameters_decoding_short(mode, outcome, avail) ==
    LET r == read_bytes(PACKET_LEN, outcome, avail)
    IN  IF ~IsConnected
        THEN [raised |-> TRUE, msg |-> "Not connected to device.", val |-> "None",
              raw |-> << >>, s |-> << >>, io |-> << >>, log |-> << >>]
        ELSE [raised |-> FALSE, msg |-> "", val |-> "settings", raw |-> r.data,
              s |-> decode_frame_to_settings(mode, Padded(r.data)).s, io |-> r.io,
              log |-> Append(r.log, LogEntry("text:PARAM-decoded", << >>))]

\* A read_parameters that keeps the bytes of a short read and puts them in
\* front of what the next call reads.
read_parameters_buffering(mode, outcome, avail) ==
    LET r == read_bytes(PACKET_LEN, outcome, avail)
        kept == IF cur.name = "read_parameters" /\ Len(out.data) < PACKET_LEN
                THEN out.data ELSE << >>
        raw == SubSeq(kept \o r.data, 1,
                      IF Len(kept \o r.data) < PACKET_LEN THEN Len(kept \o r.data)
                      ELSE PACKET_LEN)
    IN  IF ~IsConnected
        THEN [raised |-> TRUE, msg |-> "Not connected to device.", val |-> "None",
              raw |-> << >>, s |-> << >>, io |-> << >>, log |-> << >>]
        ELSE IF Len(raw) # PACKET_LEN
        THEN [raised |-> FALSE, msg |-> "", val |-> "None", raw |-> raw,
              s |-> << >>, io |-> r.io,
              log |-> Append(r.log, LogEntry("text:PARAM-short", << >>))]
        ELSE [raised |-> FALSE, msg |-> "", val |-> "settings", raw |-> raw,
              s |-> decode_frame_to_settings(mode, raw).s, io |-> r.io,
              log |-> Append(r.log \o decode_frame_to_settings(mode, raw).log,
                             LogEntry("text:PARAM-decoded", << >>))]

\* What the device may deliver to the read of read_parameters: the frames of
\* RxAvail and the 15 bytes that follow the first 7 bytes of a stream of base
\* frames.
MisalignedFrame == SubSeq(BaseFrame, 8, PACKET_LEN) \o SubSeq(BaseFrame, 1, 7)

ParamAvail == RxAvail \cup {MisalignedFrame}

\* read_parameters(mode): whether it raises, the bytes it received, the
\* settings it returns (<< >> for None), the driver calls it makes and what it
\* logs.
read_parameters(mode, outcome, avail) ==
    LET r == read_bytes(PACKET_LEN, outcome, avail)
    IN  IF ~IsConnected
        THEN [raised |-> TRUE, msg |-> "Not connected to device.", val |-> "None",
              raw |-> << >>, s |-> << >>, io |-> << >>, log |-> << >>]
        ELSE IF r.raised
        THEN [raised |-> TRUE, msg |-> "driver error", val |-> "None",
              raw |-> << >>, s |-> << >>, io |-> r.io, log |-> r.log]
        ELSE IF Len(r.data) # PACKET_LEN
        THEN [raised |-> FALSE, msg |-> "", val |-> "None", raw |-> r.data,
              s |-> << >>, io |-> r.io,
              log |-> Append(r.log, LogEntry("text:PARAM-short", << >>))]
        ELSE [raised |-> FALSE, msg |-> "", val |-> "settings", raw |-> r.data,
              s |-> decode_frame_to_settings(mode, r.data).s, io |-> r.io,
              log |-> Append(r.log \o decode_frame_to_settings(mode, r.data).log,
                             LogEntry("text:PARAM-decoded", << >>))]

ReadParameters ==
    /\ pc = "idle"
    /\ \E mode \in FallbackModes, outcome \in {"timeout", "data", "raises"} :
      \E avail \in IF outcome = "data" THEN ParamAvail ELSE {ShortFrame} :
        /\ outcome # "timeout" => IsConnected
        /\ cur' = [BeginMode("read_parameters", mode) EXCEPT
                      !.after_short_read =
                          /\ cur.name = "read_parameters"
                          /\ Len(out.data) \in 1 .. PACKET_LEN - 1]
        /\ LET o == read_parameters(mode, outcome, avail)
           IN  /\ ret' = IF o.raised THEN Raised(o.msg) ELSE Returned(o.val, "")
               /\ out' = [NoOut EXCEPT !.data = o.raw, !.s = o.s]
               /\ io' = o.io
               /\ log' = o.log
    /\ tx' = << >> /\ lb' = NoLb
    /\ UNCHANGED << fieldVars, driverVars, pc, th_log, codecVars, last_sent_settings >>

\* What the form may hold when Verify is pressed, for the mode selected.
VerifyLocals(mode) == {[s EXCEPT !.mode = mode] : s \in SendInputs}

\* What the device may deliver to the read of Verify: a short frame and the
\* encodings of the settings of SendInputs, under their own mode and under VVI.
VerifyAvail ==
    {ShortFrame} \cup {encode_settings_to_frame(l) : l \in SendInputs \cup VerifyLocals("VVI")}

\* A comparison that stops at the first differing field.
verify_differing_first_only(local, device) ==
    LET fs == SelectSeq(FIELD_ORDER, LAMBDA f : local[f] # device[f])
    IN  [k \in 1 .. (IF fs = << >> THEN 0 ELSE 1) |->
            [field |-> fs[k], local |-> local[fs[k]], device |-> device[fs[k]]]]

\* _on_verify, the loop over FIELD_ORDER: one entry, with both values, for
\* each field whose local and device values differ.
verify_differing(local, device) ==
    LET fs == SelectSeq(FIELD_ORDER, LAMBDA f : local[f] # device[f])
    IN  [k \in 1 .. Len(fs) |->
            [field |-> fs[k], local |-> local[fs[k]], device |-> device[fs[k]]]]

\* _on_verify: read_parameters(mode), the two error dialogs, then the
\* comparison of the form's settings with the decoded ones and its dialog.
\* ret.val is the title of the dialog shown.
OnVerify ==
    /\ pc = "idle"
    /\ \E mode \in FallbackModes, outcome \in {"timeout", "data", "raises"} :
        \E local \in VerifyLocals(mode),
           avail \in IF outcome = "data" THEN VerifyAvail ELSE {ShortFrame} :
            /\ outcome # "timeout" => IsConnected
            /\ cur' = [BeginMode("on_verify", mode) EXCEPT !.settings = << local >>]
            /\ LET o == read_parameters(mode, outcome, avail)
                   differing == IF o.s = << >> THEN << >>
                                ELSE verify_differing(local, o.s[1])
               IN  /\ ret' = IF o.raised THEN Returned("Comm Error", o.msg)
                             ELSE IF o.val = "None"
                             THEN Returned("Verify Failed",
                                           "No settings returned from device.")
                             ELSE IF differing # << >>
                             THEN Returned("Verification Mismatch", "")
                             ELSE Returned("Verification OK", "")
                   /\ out' = [NoOut EXCEPT !.data = o.raw, !.s = o.s, !.diff = differing]
                   /\ io' = o.io
                   /\ log' = o.log
    /\ tx' = << >> /\ lb' = NoLb
    /\ UNCHANGED << fieldVars, driverVars, pc, th_log, codecVars, last_sent_settings >>

\* What the operating system may report to comports(): no port, one, or two.
PortListings == {<< >>, << "COM3" >>, << "COM3", "COM4" >>}

\* A list_ports that answers a failing driver query with the empty list.
list_ports_swallowing(query_raises, listing) ==
    [raised |-> FALSE, ports |-> IF query_raises THEN << >> ELSE listing]

\* list_ports: the device names of comports(), in its order; an exception of
\* comports() is not caught.
list_ports(query_raises, listing) ==
    IF query_raises THEN [raised |-> TRUE, ports |-> << >>]
    ELSE [raised |-> FALSE, ports |-> listing]

\* list_ports()
ListPorts ==
    /\ pc = "idle"
    /\ \E query_raises \in BOOLEAN :
      \E listing \in IF query_raises THEN {<< >>} ELSE PortListings :
        LET o == list_ports(query_raises, listing)
        IN  /\ ret' = IF o.raised THEN Raised("driver error") ELSE Returned("list", "")
            /\ out' = [NoOut EXCEPT !.ports = o.ports]
    /\ cur' = Begin("list_ports", NoPort, << >>)
    /\ tx' = << >> /\ io' = << >> /\ log' = << >> /\ lb' = NoLb
    /\ UNCHANGED << fieldVars, driverVars, pc, th_log, codecVars, last_sent_settings >>

\* test_connection: the connection test, then reset_input_buffer,
\* reset_output_buffer and in_waiting; fault names the driver call that
\* raises, if any.  It returns (ok, message) and never raises.
test_connection(fault) ==
    LET ri(ok) == IoCall("reset_input_buffer", 0, ok)
        ro(ok) == IoCall("reset_output_buffer", 0, ok)
        iw(ok) == IoCall("in_waiting", 0, ok)
        bad == << LogEntry("text:TEST-error", << >>) >>
    IN  IF ~IsConnected
        THEN [val |-> "False", msg |-> "No open serial connection. Please connect first.",
              io |-> << >>, log |-> << LogEntry("text:TEST-no-connection", << >>) >>]
        ELSE IF fault = "reset_input"
        THEN [val |-> "False", msg |-> "Serial I/O error", io |-> << ri(FALSE) >>, log |-> bad]
        ELSE IF fault = "reset_output"
        THEN [val |-> "False", msg |-> "Serial I/O error",
              io |-> << ri(TRUE), ro(FALSE) >>, log |-> bad]
        ELSE IF fault = "in_waiting"
        THEN [val |-> "False", msg |-> "Serial I/O error",
              io |-> << ri(TRUE), ro(TRUE), iw(FALSE) >>, log |-> bad]
        ELSE [val |-> "True", msg |-> "Port is open and responsive.",
              io |-> << ri(TRUE), ro(TRUE), iw(TRUE) >>,
              log |-> << LogEntry("text:TEST-ok", << >>) >>]

\* A test_connection that marks the service disconnected when the driver
\* fails.
TestConnection_marking_disconnected ==
    /\ pc = "idle"
    /\ \E fault \in {"none", "reset_input", "reset_output", "in_waiting"} :
        /\ fault # "none" => IsConnected
        /\ LET o == test_connection(fault)
           IN  /\ ret' = Returned(o.val, o.msg)
               /\ io' = o.io
               /\ log' = o.log
               /\ is_connected_flag' = IF fault # "none" THEN FALSE ELSE is_connected_flag
    /\ cur' = Begin("test_connection", NoPort, << >>)
    /\ tx' = << >> /\ out' = NoOut /\ lb' = NoLb
    /\ UNCHANGED << ser, port, egram_queue, egram_thread, egram_running, driverVars,
                    pc, th_log, codecVars, last_sent_settings >>

\* test_connection()
TestConnection ==
    /\ pc = "idle"
    /\ \E fault \in {"none", "reset_input", "reset_output", "in_waiting"} :
        /\ fault # "none" => IsConnected
        /\ LET o == test_connection(fault)
           IN  /\ ret' = Returned(o.val, o.msg)
               /\ io' = o.io
               /\ log' = o.log
    /\ cur' = Begin("test_connection", NoPort, << >>)
    /\ tx' = << >> /\ out' = NoOut /\ lb' = NoLb
    /\ UNCHANGED << fieldVars, driverVars, pc, th_log, codecVars, last_sent_settings >>

\* debug_roundtrip_test with the length test before the connection test.
lb_precheck_length_first(frame) ==
    IF Len(frame) # PACKET_LEN THEN "bad_length"
    ELSE IF ~IsConnected THEN "not_connected"
    ELSE "ok"

\* debug_roundtrip_test, its two early returns: the connection test, then the
\* length test.
lb_precheck(frame) ==
    IF ~IsConnected THEN "not_connected"
    ELSE IF Len(frame) # PACKET_LEN THEN "bad_length"
    ELSE "ok"

\* debug_roundtrip_test up to its poll loop: the checks, the buffer resets, the
\* write and the flush.  fault names the driver call that raises, if any.
debug_roundtrip_start(frame, fault) ==
    LET pre == lb_precheck(frame)
        ri(ok) == IoCall("reset_input_buffer", 0, ok)
        ro(ok) == IoCall("reset_output_buffer", 0, ok)
        wr(ok) == IoCall("write", Len(frame), ok)
        fl(ok) == IoCall("flush", 0, ok)
        sent == LogEntry("RT-TX", frame)
    IN  IF pre = "not_connected"
        THEN [polling |-> FALSE, msg |-> "Not connected to any serial port.",
              tx |-> << >>, io |-> << >>,
              log |-> << LogEntry("text:RT-not-connected", << >>) >>]
        ELSE IF pre = "bad_length"
        THEN [polling |-> FALSE, msg |-> "Test frame must be 15 bytes",
              tx |-> << >>, io |-> << >>,
              log |-> << LogEntry("text:RT-bad-length", << >>) >>]
        ELSE IF fault = "reset_input"
        THEN [polling |-> FALSE, msg |-> "Error resetting buffers",
              tx |-> << >>, io |-> << ri(FALSE) >>,
              log |-> << LogEntry("text:RT-reset-error", << >>) >>]
        ELSE IF fault = "reset_output"
        THEN [polling |-> FALSE, msg |-> "Error resetting buffers",
              tx |-> << >>, io |-> << ri(TRUE), ro(FALSE) >>,
              log |-> << LogEntry("text:RT-reset-error", << >>) >>]
        ELSE IF fault = "write"
        THEN [polling |-> FALSE, msg |-> "Error writing test frame",
              tx |-> << >>, io |-> << ri(TRUE), ro(TRUE), wr(FALSE) >>,
              log |-> << sent, LogEntry("text:RT-write-error", << >>) >>]
        ELSE IF fault = "flush"
        THEN [polling |-> FALSE, msg |-> "Error writing test frame",
              tx |-> << frame >>, io |-> << ri(TRUE), ro(TRUE), wr(TRUE), fl(FALSE) >>,
              log |-> << sent, LogEntry("text:RT-write-error", << >>) >>]
        ELSE [polling |-> TRUE, msg |-> "",
              tx |-> << frame >>, io |-> << ri(TRUE), ro(TRUE), wr(TRUE), fl(TRUE) >>,
              log |-> << sent >>]

\* debug_roundtrip_test(test_frame, timeout, poll_interval), from the call to
\* end_time = time.time() + timeout.
DebugRoundtripTest ==
    /\ pc = "idle"
    /\ \E frame \in TestFrames,
          fault \in {"none", "reset_input", "reset_output", "write", "flush"} :
      \E timeout \in IF debug_roundtrip_start(frame, fault).polling
                      THEN Timeouts ELSE {0},
         poll_interval \in PollIntervals :
        /\ fault # "none" => lb_precheck(frame) = "ok"
        /\ cur' = Begin("debug_roundtrip_test", NoPort, frame)
        /\ LET o == debug_roundtrip_start(frame, fault)
           IN  /\ pc' = IF o.polling THEN "lb_poll" ELSE "idle"
               /\ ret' = IF o.polling THEN NoRet ELSE Returned("False", o.msg)
               /\ tx' = o.tx
               /\ io' = o.io
               /\ log' = o.log
               /\ lb' = [started |-> o.polling, timeout |-> timeout,
                         poll_interval |-> poll_interval, elapsed |-> 0,
                         last_rx |-> << >>]
    /\ out' = NoOut
    /\ UNCHANGED << fieldVars, driverVars, th_log, codecVars, last_sent_settings >>

\* A loop condition that is false at once: the test gives up without polling.
lb_deadline_open_never(elapsed, timeout) == FALSE

\* A loop condition that still holds at the deadline itself.
lb_deadline_open_inclusive(elapsed, timeout) == elapsed <= timeout

\* while time.time() < end_time
lb_deadline_open(elapsed, timeout) == elapsed < timeout

\* A comparison of lengths only.
lb_is_match_by_length(frame, data) == Len(data) = Len(frame)

\* A test that also accepts the frame when the last read and this one put
\* together give it.
lb_is_match_reassembling(frame, data) ==
    \/ data = frame
    \/ lb.last_rx # << >> /\ lb.last_rx[1] \o data = frame

\* data == test_frame
lb_is_match(frame, data) == data = frame

\* A test that remembers the first non-empty read instead of the latest.
lb_note_first_rx(last_rx, data) == IF last_rx = << >> THEN << data >> ELSE last_rx

\* last_rx = data
lb_note_rx(last_rx, data) == << data >>

\* What the device may deliver to one read of the loopback test.
\* The last 8 bytes of the base frame: what follows ShortFrame in an echo
\* that the channel delivers in two parts.
RestFrame == SubSeq(BaseFrame, 8, PACKET_LEN)

LbAvail == {BaseFrame, OtherFrame, ShortFrame, RestFrame}

\* How long one driver read takes: the whole read timeout when nothing
\* arrives, no time when it raises, and anything up to the timeout otherwise.
ReadDurations(outcome) ==
    IF outcome = "timeout" THEN {ReadTimeout}
    ELSE IF outcome = "raises" THEN {0}
    ELSE {0, ReadTimeout}

\* debug_roundtrip_test, one evaluation of the loop condition and, when it
\* holds, one iteration of the poll loop; when it fails, the timeout return.
LbPoll ==
    /\ pc = "lb_poll"
    /\ IF ~lb_deadline_open(lb.elapsed, lb.timeout)
       THEN /\ pc' = "idle"
            /\ ret' = Returned("False",
                        IF lb.last_rx = << >>
                        THEN "No response received during loopback test."
                        ELSE "Loopback timeout. Last RX")
            /\ out' = [NoOut EXCEPT
                         !.data = IF lb.last_rx = << >> THEN << >> ELSE lb.last_rx[1]]
            /\ log' = Append(log, LogEntry("text:RT-timeout", << >>))
            /\ UNCHANGED << io, lb >>
       ELSE \E outcome \in {"timeout", "data", "raises"} :
            \E avail \in IF outcome = "data" THEN LbAvail ELSE {ShortFrame} :
            \E d \in ReadDurations(outcome) :
                LET r == read_bytes(PACKET_LEN, outcome, avail)
                    calls == [k \in 1 .. Len(r.io) |-> [r.io[k] EXCEPT !.at = lb.elapsed]]
                IN  /\ io' = io \o calls
                    /\ IF r.raised
                       THEN /\ pc' = "idle"
                            /\ ret' = Raised("driver error")
                            /\ log' = log \o r.log
                            /\ UNCHANGED << out, lb >>
                       ELSE IF Len(r.data) = 0
                       THEN /\ lb' = [lb EXCEPT !.elapsed = @ + d + lb.poll_interval]
                            /\ log' = log \o r.log
                            /\ UNCHANGED << pc, ret, out >>
                       ELSE IF lb_is_match(cur.payload, r.data)
                       THEN /\ pc' = "idle"
                            /\ ret' = Returned("True", "Roundtrip OK")
                            /\ out' = [NoOut EXCEPT !.data = r.data]
                            /\ lb' = [lb EXCEPT !.elapsed = @ + d, !.last_rx = lb_note_rx(@, r.data)]
                            /\ log' = Append(log \o r.log, LogEntry("text:RT-ok", << >>))
                       ELSE /\ lb' = [lb EXCEPT !.elapsed = @ + d + lb.poll_interval,
                                                !.last_rx = lb_note_rx(@, r.data)]
                            /\ log' = Append(log \o r.log,
                                             LogEntry("text:RT-nonmatching", << >>))
                            /\ UNCHANGED << pc, ret, out >>
    /\ UNCHANGED << fieldVars, driverVars, cur, tx, th_log, codecVars,
                    last_sent_settings >>

NextIO ==
    \/ CallConnect
    \/ CallDisconnect
    \/ Join
    \/ Close
    \/ Open
    \/ WriteBytes
    \/ ReadBytes
    \/ SendParameters
    \/ ReadParameters
    \/ OnVerify
    \/ ListPorts
    \/ TestConnection
    \/ DebugRoundtripTest
    \/ LbPoll

SpecIO == Init /\ [][NextIO]_vars

\* The egram stream together with the Verify button: the reader threads run
\* while the foreground thread handles a press of Verify.
NextApp ==
    \/ NextStream
    \/ OnVerify

SpecApp == Init /\ [][NextApp]_vars

\* The foreground thread keeps running its poll loop.
SpecIOFair == SpecIO /\ WF_vars(LbPoll)

(***************************************************************************)
(* Claims about the frame codec (checked under SpecCodec)                  *)
(***************************************************************************)
Encoded == cpc = "done" /\ call.op = "encode"
Decoded == cpc = "done" /\ call.op = "decode"
RoundTripped == cpc = "done" /\ call.op = "roundtrip"

\* The wire fields that are numbers, with the frame byte (0-based) of each.
NumericBytes == (2 .. 12) \cup {14}

\* s and r agree on the 14 wire fields.
SameWireFields(s, r) == \A i \in 1 .. 14 : s[FIELD_ORDER[i]] = r[FIELD_ORDER[i]]

\* The settings of the encode scenario.
ScenarioSettings ==
    [ PacemakerSettings_default("alice", "VVI") EXCEPT
        !.lower_rate_limit = 60, !.upper_rate_limit = 120,
        !.atrial_amplitude = 350, !.atrial_pulse_width = 40,
        !.ventricular_amplitude = 350, !.ventricular_pulse_width = 40,
        !.atrial_refractory_period = 250, !.ventricular_refractory_period = 320,
        !.recovery_time = 5, !.reaction_time = 30, !.response_factor = 8,
        !.activity_threshold = "Med", !.maximum_sensor_rate = 120 ]

\* C1 as stated: encoding the scenario settings yields
\* [SYNC, 4, 60, 120, 35, 0, 35, 0, 250, 64, 5, 30, 8, 3, 120], byte 9 being 64.
C1_ScenarioFrameAsStated ==
    (Encoded /\ SameWireFields(call.s, ScenarioSettings)) =>
        cret.frame = << SYNC_BYTE, 4, 60, 120, 35, 0, 35, 0, 250, 64, 5, 30, 8, 3, 120 >>

\* C1 amended: encoding the scenario settings yields
\* [SYNC, 4, 60, 120, 35, 0, 35, 0, 250, 255, 5, 30, 8, 3, 120]: the ventricular
\* refractory period 320 is clamped to 255, it does not wrap to 64.
C1_ScenarioFrame ==
    (Encoded /\ SameWireFields(call.s, ScenarioSettings)) =>
        cret.frame = << SYNC_BYTE, 4, 60, 120, 35, 0, 35, 0, 250, 255, 5, 30, 8, 3, 120 >>

C1_Witness == Encoded /\ SameWireFields(call.s, ScenarioSettings)

\* The wire subset is in its valid range: the validator accepts the record, the
\* mode is a supported one, and the three fields the validator does not bound
\* (recovery time, reaction time, response factor) fit their byte.
WireSubsetValid(s) ==
    /\ validate_settings(s)
    /\ s.mode \in DOMAIN MODE_MAP
    /\ \A f \in {"recovery_time", "reaction_time", "response_factor"} : s[f] \in 0 .. 255

\* d equals s on the wire subset, the amplitudes to one decimal place.
NearEqual(s, d) ==
    \A i \in 1 .. 14 :
        LET f == FIELD_ORDER[i]
        IN  IF f \in AmplitudeFields
            THEN RoundHalfEven(d[f], 10) = RoundHalfEven(s[f], 10)
            ELSE d[f] = s[f]

\* C2 as stated: for every valid settings record s, decoding with s.mode the
\* encoding of s succeeds and gives back s on the 14 wire fields, the two
\* amplitudes to one decimal place.
C2_RoundTripValid ==
    (RoundTripped /\ WireSubsetValid(call.s)) =>
        /\ cret.err = "none"
        /\ Len(cret.s) = 1
        /\ NearEqual(call.s, cret.s[1])

\* C3: in an encoded frame every byte is in 0..255, no error is raised, and for
\* every numeric field a value below 0 writes byte 0 and a value above 255
\* writes byte 255 (never the value modulo 256).
C3_Clamping ==
    Encoded =>
        /\ cret.err = "none"
        /\ \A k \in 1 .. Len(cret.frame) : cret.frame[k] \in 0 .. 255
        /\ \A i \in NumericBytes :
            LET f == FIELD_ORDER[i]
                v == call.s[f]
                unit == IF f \in CentiFields THEN 100 ELSE 1
            IN  /\ v < 0 => cret.frame[i + 1] = 0
                /\ v > 255 * unit => cret.frame[i + 1] = 255

C3_Witness ==
    /\ Encoded
    /\ call.s.lower_rate_limit = -5
    /\ call.s.upper_rate_limit = 1000
    /\ cret.frame[3] = 0 /\ cret.frame[4] = 255

\* Records that differ from s only outside the wire subset.
NonWireVariants(s) ==
    { [s EXCEPT !.owner_username = "bob"],
      [s EXCEPT !.pvarp = 400, !.atrial_sensitivity = 100],
      [s EXCEPT !.fixed_av_delay = 70, !.dynamic_av_delay_on = TRUE,
                !.ventricular_blanking = 30, !.atr_mode_on = TRUE] }

C5_DecodeLength ==
    (Decoded /\ Len(call.frame) # PACKET_LEN) =>
        /\ cret.err = "ValueError"
        /\ cret.s = << >>

C5_Witness == Decoded /\ Len(call.frame) = PACKET_LEN + 1 /\ cret.err = "ValueError"

\* C6: decoding a 15-byte frame never fails; a mode byte outside 1..10 decodes
\* to the caller's fallback mode and an activity-threshold byte outside 0..6
\* decodes to "Med".
C6_UnknownCodeFallback ==
    (Decoded /\ Len(call.frame) = PACKET_LEN) =>
        /\ cret.err = "none"
        /\ Len(cret.s) = 1
        /\ call.frame[2] \notin 1 .. 10 => cret.s[1].mode = call.mode
        /\ call.frame[14] \notin 0 .. 6 => cret.s[1].activity_threshold = "Med"

C6_Witness ==
    /\ Decoded /\ Len(call.frame) = PACKET_LEN
    /\ call.frame[2] = 99 /\ call.frame[14] = 99
    /\ call.mode = "AOOR" /\ cret.err = "none"

(***************************************************************************)
(* Claims about connection control and raw I/O (checked under Spec)        *)
(***************************************************************************)
\* The foreground thread is between calls and its latest call was `name`.
Finished(name) == pc = "idle" /\ cur.name = name

\* The service holds no handle, no port name and is not connected.
FullyDisconnected ==
    /\ ser = 0
    /\ port = NoPort
    /\ ~is_connected_flag
    /\ ~IsConnected

OpenHandles == {h \in Handles : handle_open[h]}

\* C7: disconnect() called right after another disconnect(), or before any
\* connect() has opened a channel, does not raise and leaves is_connected
\* false, with the handle and the port name cleared.
C7_IdempotentDisconnect ==
    (Finished("disconnect") /\ (cur.after_disconnect \/ n_handles = 0)) =>
        /\ ~ret.raised
        /\ FullyDisconnected

\* A second disconnect() in a row, on a service that had opened a channel.
C7_Witness ==
    /\ Finished("disconnect")
    /\ cur.after_disconnect
    /\ n_handles >= 1
    /\ ~ret.raised

\* C8: write_bytes(payload) on a disconnected service returns False, puts no
\* byte on any channel, and appends exactly one log entry, tagged TX-NC and
\* carrying the payload.
C8_MockWrite ==
    (Finished("write_bytes") /\ ~cur.pre_connected) =>
        /\ ~ret.raised
        /\ ret.val = "False"
        /\ tx = << >>
        /\ log = << LogEntry("TX-NC", cur.payload) >>

\* A 15-byte frame written after the service had been connected and closed.
C8_Witness ==
    /\ Finished("write_bytes")
    /\ ~cur.pre_connected
    /\ cur.payload = BaseFrame
    /\ n_handles >= 1
    /\ ret.val = "False"

\* C9: a connect(port) that fails to open the channel returns (False, message)
\* and leaves the service with no handle, no port name and is_connected false,
\* whether or not it was connected when the call began.
C9_OpenRollback ==
    (Finished("connect") /\ ret.val = "False") =>
        /\ ~ret.raised
        /\ ret.msg = "Failed to open"
        /\ FullyDisconnected

\* A failed connect() on a service that was connected when the call began.
C9_Witness ==
    /\ Finished("connect")
    /\ ret.val = "False"
    /\ cur.pre_connected
    /\ FullyDisconnected

\* C10 as stated: between calls, after any sequence of connect and disconnect
\* calls, at most one of the channel handles the service has opened is open.
C10_SingleOpenHandle ==
    pc = "idle" => Cardinality(OpenHandles) <= 1

(***************************************************************************)
(* Claims about the egram reader (checked under Spec)                      *)
(***************************************************************************)
\* Reader threads inside _egram_loop, and those inside its read_bytes call.
AliveReaders == {t \in Threads : th_pc[t] \in {"check", "read", "put"}}
ReadingReaders == {t \in Threads : th_pc[t] = "read"}

\* C11 as stated: in every reachable state at most one egram reader thread is
\* alive and reading the channel, also after a stop whose join timed out with
\* the thread still in its read, followed by a start.
C11_SingleReader == Cardinality(ReadingReaders) <= 1

\* C12: a start_egram_stream call made while the service is not connected, or
\* while the running flag is already set, creates no thread, leaves the running
\* flag and the thread reference as they were, and returns without raising.
C12_StartNoOp ==
    [][(StartEgramStream /\ (~IsConnected \/ egram_running)) =>
            /\ UNCHANGED << n_threads, th_pc, egram_thread, egram_running >>
            /\ ~ret'.raised
            /\ pc' = "idle"]_vars

\* A start that returned while the reader was already running and connected.
C12_Witness ==
    /\ Finished("start_egram_stream")
    /\ IsConnected /\ egram_running
    /\ log = << >>
    /\ n_threads = 1 /\ th_pc[1] # "dead"

\* C13: stop_egram_stream never waits without bound (its join step can be taken
\* whatever the reader thread is doing) and returns without raising, with the
\* running flag false and the thread reference cleared.
C13_StopSafeBounded ==
    /\ pc = "join" => ENABLED Join
    /\ Finished("stop_egram_stream") =>
        /\ ~ret.raised
        /\ ~egram_running
        /\ egram_thread = 0

\* A stop that returned while the reader it stopped is still blocked in a read.
C13_Witness ==
    /\ Finished("stop_egram_stream")
    /\ n_threads = 1 /\ th_pc[1] = "read"
    /\ ~egram_running /\ egram_thread = 0

\* C19: write_bytes on a connected service makes one driver write; it returns
\* True with the payload on the channel when the write succeeds, and returns
\* False after logging a TX-ERR entry when the write raises; no exception
\* leaves write_bytes.
C19_WriteNeverRaises ==
    (Finished("write_bytes") /\ cur.pre_connected) =>
        /\ ~ret.raised
        /\ Len(io) = 1 /\ io[1].op = "write"
        /\ IF io[1].ok
           THEN ret.val = "True" /\ tx = << cur.payload >>
           ELSE /\ ret.val = "False" /\ tx = << >>
                /\ Len(log) >= 1 /\ log[1] = LogEntry("TX-ERR", cur.payload)

\* A connected write whose driver call raised.
C19_Witness ==
    /\ Finished("write_bytes") /\ cur.pre_connected
    /\ Len(io) = 1 /\ ~io[1].ok
    /\ ret.val = "False" /\ ~ret.raised

(***************************************************************************)
(* Claims about the loopback test (checked under SpecIO and SpecIOFair)    *)
(***************************************************************************)
\* The log entry read_bytes writes for a non-empty read.
Rx(data) == LogEntry("RX", data)

\* The latest loopback test logged a read of exactly `data`.
ReadReturned(data) == \E k \in 1 .. Len(log) : log[k] = Rx(data)

\* The latest loopback test logged no non-empty read at all.
NothingReceived == \A k \in 1 .. Len(log) : log[k].tag # "RX"

\* The driver reads of the latest call.
Reads == {k \in 1 .. Len(io) : io[k].op = "read"}

TimeoutMessages ==
    {"No response received during loopback test.", "Loopback timeout. Last RX"}

\* C14: debug_roundtrip_test on a disconnected service, or with a test frame
\* whose length is not 15, returns failure at once: no buffer reset, no write,
\* no read, no time spent; the message is the not-connected one when the
\* service is not connected (whatever the frame length), the frame-length one
\* otherwise, and neither is a message of the timeout return.
C14_LoopbackPreconditions ==
    (Finished("debug_roundtrip_test")
        /\ (~cur.pre_connected \/ Len(cur.payload) # PACKET_LEN)) =>
            /\ ~ret.raised /\ ret.val = "False"
            /\ io = << >> /\ tx = << >>
            /\ ~lb.started /\ lb.elapsed = 0
            /\ ret.msg = IF ~cur.pre_connected THEN "Not connected to any serial port."
                         ELSE "Test frame must be 15 bytes"
            /\ ret.msg \notin TimeoutMessages

\* A 14-byte test frame on a disconnected service: the connection check wins.
C14_Witness ==
    /\ Finished("debug_roundtrip_test")
    /\ ~cur.pre_connected /\ Len(cur.payload) = PACKET_LEN - 1
    /\ ret.msg = "Not connected to any serial port."

\* C15: once the test frame is written, a read that returns the 15 bytes of the
\* sent frame ends the test with success and those bytes, whatever empty or
\* non-matching reads came before; success is reported for no other bytes; and
\* a failure is returned only at the deadline, never because of a non-matching
\* read.
C15_LoopbackSuccess ==
    /\ pc = "lb_poll" => ~ReadReturned(cur.payload)
    /\ (Finished("debug_roundtrip_test") /\ lb.started) =>
        /\ ~ret.raised
        /\ ReadReturned(cur.payload) => ret.val = "True"
        /\ ret.val = "True" => (out.data = cur.payload /\ ReadReturned(cur.payload))
        /\ ret.val = "False" => (lb.elapsed >= lb.timeout /\ ret.msg \in TimeoutMessages)

\* Success after an empty read and a non-matching 15-byte read.
C15_Witness ==
    /\ Finished("debug_roundtrip_test") /\ lb.started
    /\ ret.val = "True" /\ out.data = cur.payload
    /\ ReadReturned(OtherFrame)
    /\ Cardinality(Reads) = 3

\* The state part of C16: a test that polled a channel delivering no byte
\* returns the no-response failure, not before its deadline and at most one
\* read timeout plus one poll interval after it, and began every read before
\* the deadline.
C16_Timing ==
    (Finished("debug_roundtrip_test") /\ lb.started /\ NothingReceived) =>
        /\ ~ret.raised /\ ret.val = "False"
        /\ ret.msg = "No response received during loopback test."
        /\ lb.elapsed >= lb.timeout
        /\ lb.timeout > 0 => lb.elapsed <= lb.timeout + ReadTimeout + lb.poll_interval
        /\ lb.timeout <= 0 => lb.elapsed = 0
        /\ \A k \in Reads : io[k].at < lb.timeout

\* C16: on a connected channel that never delivers a byte the loopback test
\* always terminates, with failure, only once the deadline has passed, with an
\* overshoot of at most one read timeout plus one poll interval, and it starts
\* no read after the deadline.
C16_LoopbackTiming ==
    /\ []C16_Timing
    /\ (pc = "lb_poll") ~> (pc = "idle")

\* A test with the longest timeout that saw two silent reads and then gave up.
C16_Witness ==
    /\ Finished("debug_roundtrip_test") /\ lb.started /\ NothingReceived
    /\ lb.timeout = MaxTimeout
    /\ Cardinality(Reads) >= 2
    /\ lb.elapsed > lb.timeout

(***************************************************************************)
(* Claims about the parameter protocol and read_bytes (checked under       *)
(* SpecIO)                                                                 *)
(***************************************************************************)
Writes == {k \in 1 .. Len(io) : io[k].op = "write"}
Flushes == {k \in 1 .. Len(io) : io[k].op = "flush"}

C20_ReadNeverRaises ==
    Finished("read_bytes") =>
        /\ ~ret.raised
        /\ Len(out.data) <= cur.size
        /\ IF ~cur.pre_connected
           THEN out.data = << >> /\ io = << >>
           ELSE /\ Len(io) = 1 /\ io[1].op = "read" /\ io[1].n = cur.size
                /\ ~io[1].ok => out.data = << >>
                /\ log = IF out.data # << >> THEN << Rx(out.data) >>
                         ELSE IF ~io[1].ok THEN << LogEntry("text:READ-error", << >>) >>
                         ELSE << >>

\* A connected read whose driver call raised.
C20_Witness ==
    /\ Finished("read_bytes") /\ cur.pre_connected
    /\ Len(io) = 1 /\ ~io[1].ok
    /\ out.data = << >> /\ ~ret.raised

(***************************************************************************)
(* Claims C21..C30                                                         *)
(***************************************************************************)

\* The code tables of the specification, written out independently.
SpecModeCode(m) ==
    CASE m = "AOO" -> 1 [] m = "VOO" -> 2 [] m = "AAI" -> 3 [] m = "VVI" -> 4
      [] m = "AOOR" -> 5 [] m = "VOOR" -> 6 [] m = "AAIR" -> 7
      [] m = "VVIR" -> 8 [] m = "DDD" -> 9 [] m = "DDDR" -> 10 [] OTHER -> 0

SpecActivityCode(a) ==
    CASE a = "V-Low" -> 0 [] a = "Low" -> 1 [] a = "Med-Low" -> 2
      [] a = "Med" -> 3 [] a = "Med-High" -> 4 [] a = "High" -> 5
      [] a = "V-High" -> 6 [] OTHER -> 3

\* C30: in an encoded frame byte 1 is the code of the mode (AOO=1 .. DDDR=10)
\* and 0 for a name outside the table, byte 13 is the code of the activity
\* threshold (V-Low=0 .. V-High=6) and 3 for a name outside the table; so
\* byte 1 is in 0..10 and byte 13 in 0..6.
C30_EncodeLookups ==
    Encoded =>
        /\ cret.frame[2] = SpecModeCode(call.s.mode)
        /\ cret.frame[14] = SpecActivityCode(call.s.activity_threshold)
        /\ cret.frame[2] \in 0 .. 10
        /\ cret.frame[14] \in 0 .. 6

C30_Witness ==
    /\ Encoded
    /\ call.s.mode = "XYZ" /\ call.s.activity_threshold = "Extreme"
    /\ cret.frame[2] = 0 /\ cret.frame[14] = 3

\* The positions of the non-empty reads the latest call logged.
RxEntries == {k \in 1 .. Len(log) : log[k].tag = "RX"}

\* The bytes of the last non-empty read the latest call logged.
LastReceived == log[CHOOSE k \in RxEntries : \A j \in RxEntries : j <= k].data

\* C26: a loopback test that fails at its deadline reports "no response"
\* exactly when no read of the whole poll returned a byte; otherwise it reports
\* the timeout message carrying the bytes of the last non-empty read.
C26_LoopbackFailure ==
    (Finished("debug_roundtrip_test") /\ lb.started /\ ~ret.raised /\ ret.val = "False") =>
        /\ ret.msg \in TimeoutMessages
        /\ (ret.msg = "No response received during loopback test.") <=> NothingReceived
        /\ NothingReceived => out.data = << >>
        /\ ~NothingReceived =>
            /\ ret.msg = "Loopback timeout. Last RX"
            /\ out.data = LastReceived

\* A failed test whose last non-empty read (a short one) came after a
\* different non-matching frame and was followed by a silent read.
C26_Witness ==
    /\ Finished("debug_roundtrip_test") /\ lb.started /\ ret.val = "False"
    /\ ReadReturned(OtherFrame)
    /\ out.data = ShortFrame
    /\ Cardinality(RxEntries) = 2
    /\ Cardinality(Reads) = 3

\* C27: after every send_parameters(s), failed or not, the last-sent record is
\* s; and no step other than the start of a send_parameters call changes it.
C27_LastSent ==
    [][ /\ Finished("send_parameters")' => last_sent_settings' = cur'.settings
        /\ last_sent_settings' # last_sent_settings =>
            (pc = "idle" /\ pc' = "idle" /\ cur'.name = "send_parameters"
                /\ cur'.settings # << >>) ]_vars

\* A send whose write failed: the record holds the settings of the failed
\* attempt.
C27_Witness ==
    /\ Finished("send_parameters") /\ ret.raised /\ tx = << >>
    /\ cur.settings = << ByteSizedSettings >>
    /\ last_sent_settings = << ByteSizedSettings >>

\* The position of a field in FIELD_ORDER.
FieldIndex(f) == CHOOSE i \in 1 .. Len(FIELD_ORDER) : FIELD_ORDER[i] = f

\* C21: when the device returned settings, Verify reports exactly the fields
\* of FIELD_ORDER whose decoded device value differs from the local value, in
\* FIELD_ORDER order, each once and with both values; the report is empty, and
\* the dialog is the OK one, exactly when all 14 fields are equal.
C21_VerifyDiff ==
    (Finished("on_verify") /\ out.s # << >>) =>
        LET local == cur.settings[1]
            device == out.s[1]
            d == out.diff
        IN  /\ \A i \in 1 .. Len(FIELD_ORDER) :
                (local[FIELD_ORDER[i]] # device[FIELD_ORDER[i]]) <=>
                    (\E k \in 1 .. Len(d) : d[k].field = FIELD_ORDER[i])
            /\ \A k \in 1 .. Len(d) :
                /\ d[k].field \in {FIELD_ORDER[i] : i \in 1 .. Len(FIELD_ORDER)}
                /\ d[k].local = local[d[k].field]
                /\ d[k].device = device[d[k].field]
            /\ \A k, l \in 1 .. Len(d) :
                k < l => FieldIndex(d[k].field) < FieldIndex(d[l].field)
            /\ (d = << >>) <=>
                (\A i \in 1 .. Len(FIELD_ORDER) :
                    local[FIELD_ORDER[i]] = device[FIELD_ORDER[i]])
            /\ ret.val = IF d = << >> THEN "Verification OK" ELSE "Verification Mismatch"

\* A Verify that found the mode and at least two more fields different.
C21_Witness ==
    /\ Finished("on_verify") /\ out.s # << >>
    /\ Len(out.diff) >= 3
    /\ out.diff[1].field = "mode"
    /\ ret.val = "Verification Mismatch"

\* A Verify that found all 14 fields equal.
C21_WitnessEqual ==
    /\ Finished("on_verify") /\ out.s # << >>
    /\ out.diff = << >> /\ ret.val = "Verification OK"

\* The reader threads' log ends with the entry read_bytes writes when the
\* driver read raised.
ReaderReadFailed(l) == l # << >> /\ l[Len(l)].tag = "text:READ-error"

\* C22: a step of a running reader in which the driver read raised ends the
\* reader: the thread leaves the loop and the running flag is false.
C22_ReaderStopsOnError ==
    [][ \A t \in Threads :
          (th_pc[t] = "read" /\ th_pc'[t] # "read"
              /\ Len(th_log') = Len(th_log) + 1 /\ ReaderReadFailed(th_log')) =>
                (th_pc'[t] = "dead" /\ ~egram_running') ]_vars

\* The reader threads that have been started and have not left their loop.
LoopingReader(t) == th_pc[t] \in {"check", "read", "put"}

\* A reader thread ends only by its own test of the loop condition.
ExitsByItself ==
    [][ \A t \in 1 .. MaxThreads :
          (LoopingReader(t) /\ th_pc'[t] = "dead") =>
              (th_pc[t] = "check" /\ ~(egram_running /\ ser # 0 /\ handle_open[ser])) ]_vars

\* A reader thread that has ended stays ended, and the queue grows only by
\* the put of a thread that is inside its loop.
NoPushAfterExit ==
    [][ /\ \A t \in 1 .. MaxThreads : th_pc[t] = "dead" => th_pc'[t] = "dead"
        /\ egram_queue' # egram_queue /\ egram_queue # << >> =>
            \E t \in 1 .. MaxThreads : th_pc[t] = "put" /\ th_pc'[t] = "check" ]_vars

\* C24: once the running flag is cleared, every reader thread still in its
\* loop eventually leaves it by itself unless a later start sets the flag
\* again; a thread is never ended from outside, and after it has ended it
\* pushes nothing on the queue.
C24_CooperativeCancel ==
    /\ (AliveReaders # {} /\ ~egram_running) ~> (AliveReaders = {} \/ egram_running)
    /\ ExitsByItself
    /\ NoPushAfterExit

\* A stop whose join timed out while the reader was still inside its read:
\* the thread is alive, forgotten by the service, and the flag is cleared.
C24_Witness ==
    /\ Finished("stop_egram_stream")
    /\ ~egram_running /\ egram_thread = 0
    /\ \E t \in 1 .. MaxThreads : th_pc[t] = "read"

\* The step of disconnect() that closes the port and clears the fields.
DisconnectCloses == pc = "close" /\ cur.name = "disconnect" /\ pc' # "close"

\* C25: disconnect() closes the port only after it has cleared the reader's
\* running flag and its bounded join has returned; a close() that raises is
\* logged and not propagated; and disconnect() ends with the handle, the port
\* name and the connected flag cleared and the running flag false.
C25_CloseOrdering ==
    [][ /\ (handle_open' # handle_open /\ cur.name = "disconnect") =>
            (DisconnectCloses /\ ~egram_running /\ egram_thread = 0)
        /\ DisconnectCloses =>
            /\ ~egram_running /\ egram_thread = 0
            /\ Finished("disconnect")'
            /\ ~ret'.raised
            /\ FullyDisconnected'
            /\ ~egram_running'
            /\ (ser # 0 /\ handle_open[ser] /\ handle_open'[ser]) =>
                log'[Len(log')].tag = "text:close-error" ]_vars

\* A disconnect() whose close() raised, called while a reader was running and
\* finished before that reader has left its loop.
C25_Witness ==
    /\ Finished("disconnect") /\ ~ret.raised /\ FullyDisconnected
    /\ cur.pre_connected
    /\ \E k \in 1 .. Len(log) : log[k].tag = "text:close-error"
    /\ AliveReaders # {}
    /\ ~egram_running

\* C28: the queue receives one sample for each byte read, so every item a
\* reader has put on the attached queue stands for exactly one byte.
C28_OneSamplePerByte ==
    egram_queue # << >> =>
        \A k \in 1 .. Len(egram_queue[1]) : Len(egram_queue[1][k]) = 1

C31_SyncTolerance ==
    (Decoded /\ Len(call.frame) = PACKET_LEN) =>
        LET fixed == [call.frame EXCEPT ![1] = SYNC_BYTE]
        IN  /\ cret.err = "none"
            /\ cret.s = decode_frame_to_settings(call.mode, fixed).s
            /\ cret.s # << >>
            /\ log = IF call.frame[1] # SYNC_BYTE THEN << SyncWarning >> ELSE << >>

\* A frame that starts with 0xFF and carries an unknown mode code.
C31_Witness ==
    /\ Decoded /\ Len(call.frame) = PACKET_LEN
    /\ call.frame[1] = 255 /\ call.frame[2] = 0
    /\ cret.err = "none" /\ log = << SyncWarning >>

\* C32: list_ports never raises: it returns the names found, in order, and
\* the empty sequence when none is found or when the driver query raises.
C32_ListPortsNeverFails ==
    Finished("list_ports") =>
        /\ ~ret.raised
        /\ out.ports \in PortListings

Reversed == cpc = "done" /\ call.op = "reverse"

\* C33: a 15-byte frame that starts with the sync constant, whose mode byte is
\* in 1..10 and whose activity-threshold byte is in 0..6, is reproduced byte
\* for byte by decoding it (under any fallback mode) and encoding the result.
C33_ReverseRoundTrip ==
    (Reversed /\ call.frame[1] = SYNC_BYTE /\ call.frame[2] \in 1 .. 10
        /\ call.frame[14] \in 0 .. 6) =>
            /\ cret.err = "none"
            /\ cret.frame = call.frame

\* A frame with the largest amplitude byte and a mode other than the fallback.
C33_Witness ==
    /\ Reversed /\ call.frame[1] = SYNC_BYTE
    /\ call.frame[2] = 7 /\ call.frame[5] = 255 /\ call.frame[14] \in 0 .. 6
    /\ cret.frame = call.frame

\* The non-empty reads the latest call logged, in order.
RxLog == SelectSeq(log, LAMBDA e : e.tag = "RX")

\* The latest loopback test received the sent frame in two or three parts and
\* nothing else: no single read returned it, the parts in order give it.
EchoInParts ==
    /\ Len(RxLog) \in {2, 3}
    /\ \A k \in 1 .. Len(RxLog) : Len(RxLog[k].data) < PACKET_LEN
    /\ cur.payload =
        IF Len(RxLog) = 2 THEN RxLog[1].data \o RxLog[2].data
        ELSE RxLog[1].data \o RxLog[2].data \o RxLog[3].data

\* C34: the loopback test compares each read by itself and never joins reads:
\* while the echo of the sent frame arrives in parts the test does not stop,
\* and when it ends it reports the timeout failure whose last-received bytes
\* are the final part.
C34_NoReassembly ==
    /\ (pc = "lb_poll" /\ EchoInParts) => ret = NoRet
    /\ (Finished("debug_roundtrip_test") /\ lb.started /\ EchoInParts) =>
        /\ ~ret.raised /\ ret.val = "False"
        /\ ret.msg = "Loopback timeout. Last RX"
        /\ out.data = RxLog[Len(RxLog)].data
        /\ lb.elapsed >= lb.timeout

\* The echo arrived as 7 bytes and then 8 bytes, and the test timed out.
C34_Witness ==
    /\ Finished("debug_roundtrip_test") /\ lb.started /\ EchoInParts
    /\ RxLog[1].data = ShortFrame /\ RxLog[2].data = RestFrame
    /\ ret.val = "False" /\ out.data = RestFrame

\* A connected read_parameters has just returned.
ReceiveReturned == Finished("read_parameters") /\ cur.pre_connected

\* C35: a read_parameters that obtained 1 to 14 bytes returns None and keeps
\* none of them: the service fields are untouched, and the read_parameters
\* that follows asks the driver for a full frame again and decodes exactly
\* what that one read delivered, whatever its alignment.
C35_ShortReadsDropped ==
    [][ (ReceiveReturned /\ Len(out.data) \in 1 .. PACKET_LEN - 1 /\ ReceiveReturned') =>
            /\ ret.val = "None" /\ out.s = << >>
            /\ fieldVars' = fieldVars /\ last_sent_settings' = last_sent_settings
            /\ cur'.after_short_read
            /\ Len(io') = 1 /\ io'[1].op = "read" /\ io'[1].n = PACKET_LEN
            /\ IF \E k \in 1 .. Len(log') : log'[k].tag = "RX"
               THEN out'.data = log'[1].data
               ELSE out'.data = << >>
            /\ IF Len(out'.data) = PACKET_LEN
               THEN /\ ret'.val = "settings"
                    /\ out'.s = decode_frame_to_settings(cur'.mode, out'.data).s
               ELSE ret'.val = "None" /\ out'.s = << >> ]_vars

\* After a short read, the next read_parameters received the 15 bytes that
\* follow in a stream of base frames and returned a record decoded from that
\* misaligned frame, with only the sync warning in the log.
C35_Witness ==
    /\ ReceiveReturned /\ cur.after_short_read
    /\ out.data = MisalignedFrame
    /\ ret.val = "settings"
    /\ out.s[1].lower_rate_limit = BaseFrame[10]
    /\ \E k \in 1 .. Len(log) : log[k] = SyncWarning

\* The handle, the port name, the connected flag and the channels' state.
ConnectionState == << ser, port, is_connected_flag, n_handles, handle_open >>

\* The latest driver call of the running foreground operation failed in this
\* step.
DriverCallFailed == io' # io /\ io' # << >> /\ ~io'[Len(io')].ok

\* C36: only the close and open steps of connect and disconnect change the
\* handle, the port name or the connected flag; a step of write_bytes,
\* read_bytes, send_parameters, read_parameters, test_connection or the
\* loopback test in which a driver call raised leaves them as they were, so
\* the service still reports is_connected true.
C36_FailureKeepsConnection ==
    [][ /\ ConnectionState' # ConnectionState =>
            (pc \in {"close", "open"} /\ cur.name \in {"connect", "disconnect"})
        /\ DriverCallFailed =>
            (IsConnected /\ IsConnected' /\ ConnectionState' = ConnectionState) ]_vars

\* test_connection failed at its last driver call and the service is still
\* connected.
C36_Witness ==
    /\ Finished("test_connection") /\ ret.val = "False"
    /\ Len(io) = 3 /\ io[3].op = "in_waiting" /\ ~io[3].ok
    /\ IsConnected /\ port # NoPort

\* C37: between operations the connected flag is true exactly when a handle
\* is held and exactly when a port name is recorded; and in every state in
\* which the egram running flag is true the service holds a handle and is
\* flagged connected.
C37_FieldsMoveTogether ==
    /\ pc = "idle" =>
        /\ is_connected_flag <=> ser # 0
        /\ is_connected_flag <=> port # NoPort
    /\ egram_running => (ser # 0 /\ is_connected_flag /\ port # NoPort)

\* The stream was started on the second channel the service opened, after a
\* reconnect.
C37_Witness ==
    /\ Finished("start_egram_stream") /\ egram_running
    /\ n_handles = 2 /\ ser = 2 /\ port = "COM4" /\ is_connected_flag

\* A connect whose open failed: all three fields are clear.
C37_WitnessFailedOpen ==
    /\ Finished("connect") /\ ret.val = "False"
    /\ ~is_connected_flag /\ ser = 0 /\ port = NoPort /\ n_handles = 1

\* C38: a loopback test called on a connected service with a 15-byte frame
\* and a timeout of zero or less still resets the buffers and writes and
\* flushes the frame, issues no read at all, spends no time, and returns the
\* "no response" failure, whatever the device would have delivered.
C38_NonPositiveTimeout ==
    (Finished("debug_roundtrip_test") /\ lb.started /\ lb.timeout <= 0) =>
        /\ cur.pre_connected /\ Len(cur.payload) = PACKET_LEN
        /\ tx = << cur.payload >>
        /\ Writes # {} /\ Flushes # {}
        /\ \A k \in 1 .. Len(io) : io[k].ok
        /\ Reads = {}
        /\ NothingReceived
        /\ lb.elapsed = 0
        /\ ~ret.raised /\ ret.val = "False"
        /\ ret.msg = "No response received during loopback test."
        /\ out.data = << >>

\* A test with timeout -0.1 s that sent the base frame and gave up at once.
C38_Witness ==
    /\ Finished("debug_roundtrip_test") /\ lb.started /\ lb.timeout = -1
    /\ tx = << BaseFrame >>
    /\ Reads = {} /\ Len(io) = 4
    /\ ret.msg = "No response received during loopback test."

====
